---- MODULE Spec2Model ----
(***************************************************************************)
(* School information system backend (Express + Supabase).                 *)
(*                                                                         *)
(* The model follows one HTTP request through the middleware chain of its  *)
(* route (authenticateToken, authorizeRoles, the controller) and lets      *)
(* several requests interleave at their awaited store operations.  Tables  *)
(* of the store are sets of rows; a store operation is one atomic step.    *)
(***************************************************************************)
EXTENDS Integers, Sequences, FiniteSets, TLC

VARIABLES
    users,          \* table users: set of rows
    subjects,       \* table subjects: set of rows
    classes,        \* table classes: set of rows
    class_subjects, \* table class_subjects: set of junction rows
    parents,        \* table parents: role profiles of parent users
    students,       \* table students: role profiles of student users
    student_parents,\* table student_parents: set of junction rows
    departments,    \* table departments: set of rows
    academic_levels,\* table academic_levels: set of rows
    subject_academic_levels, \* table subject_academic_levels: junction rows
    teachers,       \* table teachers: role profiles of teacher users
    assignments,    \* table assignments: set of rows
    assignment_submissions, \* table assignment_submissions: set of rows
    learning_materials, \* table learning_materials: set of rows
    nextId,         \* next primary key the store hands out
    now,            \* wall clock, in days
    issued,         \* login responses the clients hold: {token, user}
    req             \* the requests in flight, one record per slot

vars ==
    <<users, subjects, classes, class_subjects, parents, students,
      student_parents, departments, academic_levels, subject_academic_levels,
      teachers, assignments, assignment_submissions, learning_materials,
      nextId, now, issued, req>>

(***************************************************************************)
(* Bounds of the model.                                                    *)
(***************************************************************************)
MaxTokens == 2
MaxSessions == 3
MaxClock == 8

Slots == {"r1", "r2"}

(***************************************************************************)
(* Program constants.                                                      *)
(***************************************************************************)
TokenTTL == 7
MinPasswordLen == 6

JWT_SECRET == "your-super-secret-jwt-token"

Roles == {"admin", "headmaster", "hod", "teacher", "parent", "student"}

validRoles == {"admin", "headmaster", "hod", "teacher", "parent", "student"}

(***************************************************************************)
(* Values of the requests: ids, e-mails, passwords.  A password is a       *)
(* sequence of characters, so that its length is what the code measures.   *)
(***************************************************************************)
UserIds == {"u1", "u2"}

PwAdmin == <<"A", "d", "m", "i", "n", "@", "1", "2", "3">>
PwNew == <<"n", "e", "w", "p", "a", "s", "s">>
PwShort == <<"a", "b", "c">>
Passwords == {PwAdmin, PwNew, PwShort}

\* bcrypt.hash and bcrypt.compare: the hash is not the password, and
\* compare succeeds exactly on the password that was hashed.
bcryptHash(p) == [bcrypt |-> p]
bcryptCompare(p, h) == h = bcryptHash(p)

\* String.prototype.toLowerCase on the e-mail addresses of the model.
toLowerCase(e) ==
    CASE e = "Admin@School.com" -> "admin@school.com"
      [] e = "U2@School.com" -> "u2@school.com"
      [] e = "New@School.com" -> "new@school.com"
      [] OTHER -> e

Undefined == [undefined |-> TRUE]

\* A column that is null.
Null == "null"

(***************************************************************************)
(* Supabase query results.                                                 *)
(***************************************************************************)
\* .single(): the data when exactly one row matches, an error otherwise.
Single(rows) ==
    IF Cardinality(rows) = 1
    THEN [error |-> FALSE, data |-> CHOOSE x \in rows : TRUE]
    ELSE [error |-> TRUE]

\* .maybeSingle(): null data when no row matches, an error on several.
MaybeSingle(rows) ==
    IF Cardinality(rows) = 1
    THEN [error |-> FALSE, found |-> TRUE, data |-> CHOOSE x \in rows : TRUE]
    ELSE IF rows = {} THEN [error |-> FALSE, found |-> FALSE]
    ELSE [error |-> TRUE, found |-> FALSE]

(***************************************************************************)
(* Token codec (jsonwebtoken).                                             *)
(***************************************************************************)
\* HMAC of a payload under a key: equal only for equal payload and key.
Sign(payload, key) == [signed |-> payload, key |-> key]

\* jwt.sign(payload, secret, {expiresIn}) at time t.
jwtSign(payload, key, ttl, t) ==
    LET p == [userId |-> payload.userId, email |-> payload.email,
              role |-> payload.role, iat |-> t, exp |-> t + ttl]
    IN [jwt |-> TRUE, payload |-> p, sig |-> Sign(p, key)]

Invalid == [invalid |-> TRUE]

\* jwt.verify(token, secret) at time t: throws (Invalid) on a malformed
\* token, a signature mismatch or an expired token; the payload otherwise.
jwtVerify(tok, key, t) ==
    IF DOMAIN tok # {"jwt", "payload", "sig"} THEN Invalid
    ELSE IF tok.sig # Sign(tok.payload, key) THEN Invalid
    ELSE IF t >= tok.payload.exp THEN Invalid
    ELSE tok.payload

\* generateToken with a thirty-day lifetime.
generateTokenThirtyDays(user, t) ==
    jwtSign([userId |-> user.id, email |-> user.email, role |-> user.role],
            JWT_SECRET, 30, t)

generateToken(user, t) ==
    jwtSign([userId |-> user.id, email |-> user.email, role |-> user.role],
            JWT_SECRET, TokenTTL, t)

(***************************************************************************)
(* The Authorization header: a string, here a sequence whose elements are  *)
(* spaces, words and tokens.                                               *)
(***************************************************************************)
SP == [sp |-> TRUE]
Word(w) == [word |-> w]
Tok(t) == [tok |-> t]

NoHeader == [present |-> FALSE]
Header(s) == [present |-> TRUE, value |-> s]

\* String.prototype.split(' '): the maximal runs between spaces.
RECURSIVE SplitFrom(_, _, _, _)
SplitFrom(s, i, cur, acc) ==
    IF i > Len(s) THEN Append(acc, cur)
    ELSE IF s[i] = SP THEN SplitFrom(s, i + 1, <<>>, Append(acc, cur))
    ELSE SplitFrom(s, i + 1, Append(cur, s[i]), acc)

split(s) == SplitFrom(s, 1, <<>>, <<>>)

\* authHeader && authHeader.split(' ')[1]: undefined without a header or
\* without a second part, the empty string for an empty header.
NoPart == [defined |-> FALSE]
Part(p) == [defined |-> TRUE, part |-> p]

ExtractToken(h) ==
    IF ~h.present THEN NoPart
    ELSE IF h.value = <<>> THEN Part(<<>>)
    ELSE IF Len(split(h.value)) >= 2 THEN Part(split(h.value)[2])
    ELSE NoPart

\* !token
Falsy(x) == ~x.defined \/ x.part = <<>>

\* The JWT a header part carries; any other text is a malformed token.
Garbage == [garbage |-> TRUE]
AsJwt(part) ==
    IF Len(part) = 1 /\ DOMAIN part[1] = {"tok"} THEN part[1].tok ELSE Garbage

(***************************************************************************)
(* Routes: the middleware chain each route runs, in registration order.    *)
(***************************************************************************)
MwAuth == [mw |-> "authenticateToken"]
MwGate(roles) == [mw |-> "authorizeRoles", roles |-> roles]
MwHandler(h) == [mw |-> "handler", name |-> h]

\* A teacher router that forgot its role gate.
TeacherRouterNoGate == <<MwAuth>>

\* router.use(authenticateToken); router.use(authorizeRoles(role))
AdminRouter == <<MwAuth, MwGate({"admin"})>>
HeadmasterRouter == <<MwAuth, MwGate({"headmaster"})>>
HodRouter == <<MwAuth, MwGate({"hod"})>>
TeacherRouter == <<MwAuth, MwGate({"teacher"})>>
ParentRouter == <<MwAuth, MwGate({"parent"})>>
StudentRouter == <<MwAuth, MwGate({"student"})>>

RegisterRoute == <<MwAuth, MwGate({"admin"}), MwHandler("register")>>
MeRoute == <<MwAuth, MwHandler("getCurrentUser")>>
ProfileRoute == <<MwAuth, MwHandler("updateProfile")>>
ChangePasswordRoute == <<MwAuth, MwHandler("changePassword")>>

RouteChain(route) ==
    CASE route = "GET /" -> <<MwHandler("root")>>
      [] route = "GET /api/health" -> <<MwHandler("health")>>
      [] route = "POST /api/auth/login" -> <<MwHandler("login")>>
      [] route = "POST /api/auth/register" -> RegisterRoute
      [] route = "GET /api/auth/me" -> MeRoute
      [] route = "PUT /api/auth/profile" -> ProfileRoute
      [] route = "PUT /api/auth/change-password" -> ChangePasswordRoute
      [] route = "POST /api/admin/users" ->
            AdminRouter \o <<MwHandler("createUser")>>
      [] route = "PUT /api/admin/users/:id" ->
            AdminRouter \o <<MwHandler("updateUser")>>
      [] route = "DELETE /api/admin/users/:id" ->
            AdminRouter \o <<MwHandler("deleteUser")>>
      [] route = "PUT /api/admin/users/:id/activate" ->
            AdminRouter \o <<MwHandler("activateUser")>>
      [] route = "PUT /api/admin/users/:id/deactivate" ->
            AdminRouter \o <<MwHandler("deactivateUser")>>
      [] route = "POST /api/admin/assign-teacher-subject" ->
            AdminRouter \o <<MwHandler("assignTeacherToSubject")>>
      [] route = "DELETE /api/admin/class-subjects/:id" ->
            AdminRouter \o <<MwHandler("removeTeacherAssignment")>>
      [] route = "GET /api/admin/classes/:classId/subjects" ->
            AdminRouter \o <<MwHandler("getClassSubjects")>>
      [] route = "POST /api/admin/parents/link-students" ->
            AdminRouter \o <<MwHandler("linkParentToStudents")>>
      [] route = "POST /api/admin/parents/unlink-student" ->
            AdminRouter \o <<MwHandler("unlinkParentFromStudent")>>
      [] route = "POST /api/admin/academic-levels/assign-subject" ->
            AdminRouter \o <<MwHandler("assignSubjectToAcademicLevel")>>
      [] route = "DELETE /api/admin/academic-levels/subjects/:id" ->
            AdminRouter \o <<MwHandler("removeSubjectFromAcademicLevel")>>
      [] route = "POST /api/hod/subjects" ->
            HodRouter \o <<MwHandler("createSubject")>>
      [] route = "PUT /api/hod/subjects/:id" ->
            HodRouter \o <<MwHandler("updateSubject")>>
      [] route = "GET /api/headmaster/dashboard" ->
            HeadmasterRouter \o <<MwHandler("getSchoolDashboard")>>
      [] route = "GET /api/hod/department" ->
            HodRouter \o <<MwHandler("getMyDepartment")>>
      [] route = "GET /api/teacher/classes" ->
            TeacherRouter \o <<MwHandler("getMyClasses")>>
      [] route = "GET /api/parent/children" ->
            ParentRouter \o <<MwHandler("getMyChildren")>>
      [] route = "GET /api/parent/children/:studentId/performance" ->
            ParentRouter \o <<MwHandler("getChildPerformance")>>
      [] route = "GET /api/parent/children/:studentId/assignments" ->
            ParentRouter \o <<MwHandler("getChildAssignments")>>
      [] route = "GET /api/parent/children/:studentId/attendance" ->
            ParentRouter \o <<MwHandler("getChildAttendance")>>
      [] route = "GET /api/student/dashboard" ->
            StudentRouter \o <<MwHandler("getMyDashboard")>>
      [] route = "POST /api/student/assignments/:assignmentId/submit" ->
            StudentRouter \o <<MwHandler("submitAssignment")>>
      [] route = "PUT /api/teacher/assignments/:id" ->
            TeacherRouter \o <<MwHandler("updateAssignment")>>
      [] route = "DELETE /api/teacher/assignments/:id" ->
            TeacherRouter \o <<MwHandler("deleteAssignment")>>
      [] route = "PUT /api/teacher/submissions/:id/grade" ->
            TeacherRouter \o <<MwHandler("gradeSubmission")>>
      [] route = "GET /api/hod/department/materials" ->
            HodRouter \o <<MwHandler("getDepartmentMaterials")>>
      [] route = "PUT /api/hod/materials/:id/approve" ->
            HodRouter \o <<MwHandler("approveMaterial")>>

\* Handlers that only read the store and answer.
ReadHandlers ==
    {"getSchoolDashboard", "getMyDepartment", "getMyClasses", "getMyChildren",
     "getMyDashboard"}

\* Handlers that answer without a store operation.
SyncHandlers == {"root", "health", "getCurrentUser"}

(***************************************************************************)
(* A request.                                                              *)
(***************************************************************************)
\* route and auth are the request as received; at is the time jwt.verify
\* ran, decoded its result, user is req.user, stages the middleware and
\* handler that ran, q the number of store operations, pos the place in the
\* chain, input the req.body the handler destructured, local the handler's
\* local variables, status and body the answer.
NewRequest(route, header) ==
    [pc |-> "received", route |-> route, auth |-> header, at |-> -1,
     decoded |-> Undefined, user |-> Undefined, stages |-> <<>>, q |-> 0,
     pos |-> 1, input |-> Undefined, local |-> Undefined, status |-> 0,
     body |-> Undefined]

Idle == [NewRequest("", NoHeader) EXCEPT !.pc = "idle"]

\* res.status(status).json(body)
Respond(s, status, body) ==
    [s EXCEPT !.pc = "done", !.status = status, !.body = body,
              !.local = Undefined]

\* const { password_hash, ...userWithoutPassword } = user
WithoutPassword(u) ==
    [id |-> u.id, email |-> u.email, role |-> u.role,
     first_name |-> u.first_name, is_active |-> u.is_active]

Has(b, f) == f \in DOMAIN b

Fail(s, status, msg) == Respond(s, status, [success |-> FALSE, error |-> msg])

(***************************************************************************)
(* Middleware.  Continue(s, i) runs the chain of the request from its i-th *)
(* middleware until one of them answers or awaits the store.               *)
(***************************************************************************)
\* authenticateToken up to its await: the token is extracted and verified.
AuthenticateStart(s, i) ==
    LET s1 == [s EXCEPT !.stages = Append(@, "authenticateToken"), !.pos = i]
        token == ExtractToken(s.auth)
    IN IF Falsy(token)
       THEN Respond(s1, 401, [error |-> "Access token required"])
       ELSE LET decoded == jwtVerify(AsJwt(token.part), JWT_SECRET, now)
            IN IF decoded = Invalid
               THEN Respond([s1 EXCEPT !.at = now], 403,
                            [error |-> "Invalid or expired token"])
               ELSE [s1 EXCEPT !.at = now, !.decoded = decoded,
                               !.pc = "authenticateToken"]

\* A handler up to its first await.
HandlerStart(s, name) ==
    LET s1 == [s EXCEPT !.stages = Append(@, name)]
    IN CASE name \in {"root", "health"} -> Respond(s1, 200, [success |-> TRUE])
         [] name = "getCurrentUser" ->
                IF s.user = Undefined
                THEN Fail(s1, 500, "Failed to get user data")
                ELSE Respond(s1, 200, [success |-> TRUE,
                                       user |-> WithoutPassword(s.user)])
         [] OTHER -> [s1 EXCEPT !.pc = name]

RECURSIVE Continue(_, _)
\* authorizeRoles that lets an administrator through every gate.
AuthorizeRolesAdminBypass(s, i, roles) ==
    LET s1 == [s EXCEPT !.stages = Append(@, "authorizeRoles")]
    IN IF s.user = Undefined
       THEN Respond(s1, 401, [error |-> "Authentication required"])
       ELSE IF s.user.role \notin roles \cup {"admin"}
       THEN Respond(s1, 403,
                    [error |-> "Access denied. Insufficient permissions.",
                     required |-> roles, current |-> s.user.role])
       ELSE Continue(s1, i + 1)

\* authorizeRoles(...roles), then whatever follows it.
AuthorizeRoles(s, i, roles) ==
    LET s1 == [s EXCEPT !.stages = Append(@, "authorizeRoles")]
    IN IF s.user = Undefined
       THEN Respond(s1, 401, [error |-> "Authentication required"])
       ELSE IF s.user.role \notin roles
       THEN Respond(s1, 403,
                    [error |-> "Access denied. Insufficient permissions.",
                     required |-> roles, current |-> s.user.role])
       ELSE Continue(s1, i + 1)

Continue(s, i) ==
    LET m == RouteChain(s.route)[i]
    IN CASE m.mw = "authenticateToken" -> AuthenticateStart(s, i)
         [] m.mw = "authorizeRoles" -> AuthorizeRoles(s, i, m.roles)
         [] m.mw = "handler" -> HandlerStart(s, m.name)

\* authenticateToken that does not look at is_active.
AuthenticateFetchedNoActiveCheck(s, rows) ==
    LET res == Single({u \in rows : u.id = s.decoded.userId})
        s1 == [s EXCEPT !.q = @ + 1]
    IN IF res.error
       THEN Respond(s1, 401, [error |-> "Invalid token"])
       ELSE Continue([s1 EXCEPT !.user = res.data], s.pos + 1)

\* authenticateToken that takes the role from the token payload.
AuthenticateFetchedTokenRole(s, rows) ==
    LET res == Single({u \in rows : u.id = s.decoded.userId})
        s1 == [s EXCEPT !.q = @ + 1]
    IN IF res.error
       THEN Respond(s1, 401, [error |-> "Invalid token"])
       ELSE IF ~res.data.is_active
       THEN Respond(s1, 403,
              [error |-> "Account is not active. Please contact administrator."])
       ELSE Continue([s1 EXCEPT !.user =
                        [res.data EXCEPT !.role = s.decoded.role]], s.pos + 1)

\* authenticateToken that reads is_active before it looks for the row: on a
\* missing row the read throws and the catch block answers.
AuthenticateFetchedActiveFirst(s, rows) ==
    LET res == Single({u \in rows : u.id = s.decoded.userId})
        s1 == [s EXCEPT !.q = @ + 1]
    IN IF res.error
       THEN Respond(s1, 403, [error |-> "Invalid or expired token"])
       ELSE IF ~res.data.is_active
       THEN Respond(s1, 403,
              [error |-> "Account is not active. Please contact administrator."])
       ELSE Continue([s1 EXCEPT !.user = res.data], s.pos + 1)

\* authenticateToken that turns away a token whose payload no longer
\* matches the row: a changed role ends the session.
AuthenticateFetchedStrictPayload(s, rows) ==
    LET res == Single({u \in rows : u.id = s.decoded.userId})
        s1 == [s EXCEPT !.q = @ + 1]
    IN IF res.error \/ res.data.role # s.decoded.role
       THEN Respond(s1, 401, [error |-> "Invalid token"])
       ELSE IF ~res.data.is_active
       THEN Respond(s1, 403,
              [error |-> "Account is not active. Please contact administrator."])
       ELSE Continue([s1 EXCEPT !.user = res.data], s.pos + 1)

\* authenticateToken after its await: the user row is the one just fetched.
AuthenticateFetched(s, rows) ==
    LET res == Single({u \in rows : u.id = s.decoded.userId})
        s1 == [s EXCEPT !.q = @ + 1]
    IN IF res.error
       THEN Respond(s1, 401, [error |-> "Invalid token"])
       ELSE IF ~res.data.is_active
       THEN Respond(s1, 403,
              [error |-> "Account is not active. Please contact administrator."])
       ELSE Continue([s1 EXCEPT !.user = res.data], s.pos + 1)

(***************************************************************************)
(* Requests arrive and run their chain.                                    *)
(***************************************************************************)
Unchanged_coursework ==
    UNCHANGED <<teachers, assignments, assignment_submissions,
                learning_materials>>

Unchanged_others ==
    /\ UNCHANGED <<parents, students, student_parents, departments,
                   academic_levels, subject_academic_levels>>
    /\ Unchanged_coursework

Unchanged_store ==
    /\ UNCHANGED <<users, subjects, classes, class_subjects, nextId>>
    /\ Unchanged_others

\* The logins the model follows are those that can still add a token.
LoginsInFlight == {r \in Slots : req[r].pc \in {"login", "login:update"}}
TokenBudget(max) == Cardinality(issued) + Cardinality(LoginsInFlight) < max

\* A request is received and its chain runs up to the first await.
Arrive(r, route, header) ==
    /\ req[r].pc = "idle"
    /\ req' = [req EXCEPT ![r] = Continue(NewRequest(route, header), 1)]
    /\ Unchanged_store /\ UNCHANGED <<now, issued>>

AuthFetch(r) ==
    /\ req[r].pc = "authenticateToken"
    /\ req' = [req EXCEPT ![r] = AuthenticateFetched(req[r], users)]
    /\ Unchanged_store /\ UNCHANGED <<now, issued>>

Close(r) ==
    /\ req[r].pc = "done"
    /\ req' = [req EXCEPT ![r] = Idle]
    /\ Unchanged_store /\ UNCHANGED <<now, issued>>

Tick(days) ==
    /\ now + days <= MaxClock
    /\ now' = now + days
    /\ Unchanged_store /\ UNCHANGED <<issued, req>>

(***************************************************************************)
(* authController.                                                         *)
(***************************************************************************)
\* login up to the password check.
LoginSelect(r, body) ==
    LET s == req[r]
        res == Single({u \in users : u.email = toLowerCase(body.email)})
        s1 == [s EXCEPT !.q = @ + 1]
    IN /\ s.pc = "login"
       /\ req' = [req EXCEPT ![r] =
            IF ~Has(body, "email") \/ ~Has(body, "password")
            THEN Fail(s, 400, "Email and password are required")
            ELSE IF res.error
            THEN Fail(s1, 401, "Invalid email or password")
            ELSE IF ~bcryptCompare(body.password, res.data.password_hash)
            THEN Fail(s1, 401, "Invalid email or password")
            ELSE IF ~res.data.is_active
            THEN Fail(s1, 403,
              "Your account is not active. Please contact the administrator.")
            ELSE [s1 EXCEPT !.pc = "login:update", !.local = res.data]]
       /\ Unchanged_store /\ UNCHANGED <<now, issued>>

\* login from the last_login update on (last_login is no column of the
\* model): the token is generated from the row read before.
LoginUpdate(r) ==
    LET s == req[r]
        token == generateToken(s.local, now)
        out == [token |-> token, user |-> WithoutPassword(s.local)]
    IN /\ s.pc = "login:update"
       /\ req' = [req EXCEPT ![r] =
            Respond([s EXCEPT !.q = @ + 1], 200,
                    [success |-> TRUE, message |-> "Login successful",
                     token |-> token, user |-> out.user])]
       /\ issued' = issued \cup {out}
       /\ Unchanged_store /\ UNCHANGED now

\* register, for a body that fails its validation.
RegisterRejected(r, body) ==
    LET s == req[r]
        required == {"email", "password", "role", "first_name", "last_name"}
    IN /\ s.pc = "register"
       /\ IF s.user = Undefined THEN TRUE
          ELSE IF s.user.role # "admin" THEN TRUE
          ELSE IF ~(required \subseteq DOMAIN body) THEN TRUE
          ELSE body.role \notin validRoles
       /\ req' = [req EXCEPT ![r] =
            IF s.user = Undefined \/ s.user.role # "admin"
            THEN Fail(s, 403, "Only administrators can register new users")
            ELSE IF ~(required \subseteq DOMAIN body)
            THEN Fail(s, 400,
              "Required fields: email, password, role, first_name, last_name")
            ELSE Fail(s, 400, "Invalid role")]
       /\ Unchanged_store /\ UNCHANGED <<now, issued>>

UpdateProfile(r, body) ==
    LET s == req[r]
        res == Single({u \in users : u.id = s.user.id})
        new == [res.data EXCEPT !.first_name = body.first_name]
    IN /\ s.pc = "updateProfile"
       /\ Has(body, "first_name")
       /\ IF res.error
          THEN /\ req' = [req EXCEPT ![r] =
                    Fail([s EXCEPT !.q = @ + 1], 500, "Failed to update profile")]
               /\ UNCHANGED users
          ELSE /\ users' = (users \ {res.data}) \cup {new}
               /\ req' = [req EXCEPT ![r] =
                    Respond([s EXCEPT !.q = @ + 1], 200,
                            [success |-> TRUE,
                             message |-> "Profile updated successfully",
                             user |-> WithoutPassword(new)])]
       /\ UNCHANGED <<subjects, classes, class_subjects, nextId, now, issued>>
       /\ Unchanged_others

\* changePassword up to the comparison with the stored hash.
ChangePasswordSelect(r, body) ==
    LET s == req[r]
        res == Single({u \in users : u.id = s.user.id})
        s1 == [s EXCEPT !.q = @ + 1]
    IN /\ s.pc = "changePassword"
       /\ req' = [req EXCEPT ![r] =
            IF ~Has(body, "current_password") \/ ~Has(body, "new_password")
            THEN Fail(s, 400, "Current password and new password are required")
            ELSE IF Len(body.new_password) < MinPasswordLen
            THEN Fail(s, 400, "New password must be at least 6 characters long")
            ELSE IF res.error
            THEN Fail(s1, 500, "Password change failed")
            ELSE IF ~bcryptCompare(body.current_password, res.data.password_hash)
            THEN Fail(s1, 401, "Current password is incorrect")
            ELSE [s1 EXCEPT !.pc = "changePassword:update",
                            !.local = bcryptHash(body.new_password)]]
       /\ Unchanged_store /\ UNCHANGED <<now, issued>>

ChangePasswordUpdate(r) ==
    LET s == req[r]
    IN /\ s.pc = "changePassword:update"
       /\ users' = {IF u.id = s.user.id
                    THEN [u EXCEPT !.password_hash = s.local] ELSE u : u \in users}
       /\ req' = [req EXCEPT ![r] =
            Respond([s EXCEPT !.q = @ + 1], 200,
                    [success |-> TRUE, message |-> "Password changed successfully"])]
       /\ UNCHANGED <<subjects, classes, class_subjects, nextId, now, issued>>
       /\ Unchanged_others

(***************************************************************************)
(* adminController: user management.                                       *)
(***************************************************************************)
IdInputs == UserIds \cup {"u9"}

\* The unique constraint of users.email, as the store enforces it.
EmailTaken(rows, id, email) == \E u \in rows : u.id # id /\ u.email = email

\* The updates object updateUser builds from the body.
BuildUpdates(body) ==
    [f \in DOMAIN body |->
        IF f = "email" THEN toLowerCase(body[f]) ELSE body[f]]

\* A row after .update(updates).
ApplyUpdates(u, updates) ==
    [f \in DOMAIN u |-> IF Has(updates, f) THEN updates[f] ELSE u[f]]

\* .update(updates).eq('id', id).select().single() on users
UpdateUsersById(r, id, updates, failure, message) ==
    LET s == req[r]
        res == Single({u \in users : u.id = id})
        s1 == [s EXCEPT !.q = @ + 1]
    IN IF res.error
       THEN /\ req' = [req EXCEPT ![r] = Fail(s1, 500, failure)]
            /\ UNCHANGED users
       ELSE LET new == ApplyUpdates(res.data, updates)
            IN IF EmailTaken(users, id, new.email)
               THEN /\ req' = [req EXCEPT ![r] = Fail(s1, 500, failure)]
                    /\ UNCHANGED users
               ELSE /\ users' = (users \ {res.data}) \cup {new}
                    /\ req' = [req EXCEPT ![r] = Respond(s1, 200,
                            [success |-> TRUE, message |-> message,
                             user |-> WithoutPassword(new)])]

UpdateUser(r, id, body) ==
    /\ req[r].pc = "updateUser"
    /\ UpdateUsersById(r, id, BuildUpdates(body), "Failed to update user",
                       "User updated successfully")
    /\ UNCHANGED <<subjects, classes, class_subjects, nextId, now, issued>>
    /\ Unchanged_others

DeleteUser(r, id) ==
    LET s == req[r]
    IN /\ s.pc = "deleteUser"
       /\ IF s.user # Undefined /\ id = s.user.id
          THEN /\ req' = [req EXCEPT ![r] =
                    Fail(s, 400, "Cannot delete your own account")]
               /\ UNCHANGED users
          ELSE /\ users' = {u \in users : u.id # id}
               /\ req' = [req EXCEPT ![r] =
                    Respond([s EXCEPT !.q = @ + 1], 200,
                            [success |-> TRUE,
                             message |-> "User deleted successfully"])]
       /\ UNCHANGED <<subjects, classes, class_subjects, nextId, now, issued>>
       /\ Unchanged_others

ActivateUser(r, id) ==
    /\ req[r].pc = "activateUser"
    /\ UpdateUsersById(r, id, [is_active |-> TRUE], "Failed to activate user",
                       "User activated successfully")
    /\ UNCHANGED <<subjects, classes, class_subjects, nextId, now, issued>>
    /\ Unchanged_others

DeactivateUser(r, id) ==
    LET s == req[r]
    IN /\ s.pc = "deactivateUser"
       /\ IF s.user # Undefined /\ id = s.user.id
          THEN /\ req' = [req EXCEPT ![r] =
                    Fail(s, 400, "Cannot deactivate your own account")]
               /\ UNCHANGED users
          ELSE UpdateUsersById(r, id, [is_active |-> FALSE],
                               "Failed to deactivate user",
                               "User deactivated successfully")
       /\ UNCHANGED <<subjects, classes, class_subjects, nextId, now, issued>>
       /\ Unchanged_others

(***************************************************************************)
(* Creating users: register of authController and createUser of            *)
(* adminController.  The store client reports a failed operation in its    *)
(* result; fault stands for an operation the store could not carry out.    *)
(***************************************************************************)
\* The primary keys the store hands out to users and to role profiles.
userUuid(n) == <<"u3", "u4", "u5", "u6", "u7", "u8", "u9">>[n]
profileUuid(n) == <<"x1", "x2", "x3", "x4", "x5", "x6", "x7">>[n]

ProfileRoles == {"teacher", "student", "parent"}

RequiredFields == {"email", "password", "role", "first_name", "last_name"}

\* .from('users').select('id').eq('email', email.toLowerCase()).single()
UserByEmail(rows, email) ==
    Single({[id |-> u.id] : u \in {x \in rows : x.email = toLowerCase(email)}})

\* The row .insert({email: email.toLowerCase(), password_hash, role, ..,
\* is_active: true}) stores.
NewUser(id, body) ==
    [id |-> id, email |-> toLowerCase(body.email), role |-> body.role,
     first_name |-> body.first_name, is_active |-> TRUE,
     password_hash |-> bcryptHash(body.password)]

\* register: the body is valid and the e-mail is looked up.
RegisterSelect(r, body) ==
    LET s == [req[r] EXCEPT !.input = body, !.q = @ + 1]
        res == UserByEmail(users, body.email)
    IN /\ req[r].pc = "register"
       /\ req[r].user # Undefined
       /\ req[r].user.role = "admin"
       /\ RequiredFields \subseteq DOMAIN body
       /\ body.role \in validRoles
       /\ req' = [req EXCEPT ![r] =
            IF ~res.error
            THEN Fail(s, 409, "User with this email already exists")
            ELSE [s EXCEPT !.pc = "register:insert",
                           !.local = [body |-> body]]]
       /\ Unchanged_store /\ UNCHANGED <<now, issued>>

\* register: the users row is inserted.
RegisterInsertUser(r) ==
    LET s == [req[r] EXCEPT !.q = @ + 1]
        body == s.local.body
        newUser == NewUser(userUuid(nextId), body)
    IN /\ req[r].pc = "register:insert"
       /\ IF EmailTaken(users, newUser.id, newUser.email)
          THEN /\ req' = [req EXCEPT ![r] =
                    Fail(s, 500, "Failed to create user")]
               /\ UNCHANGED <<users, nextId>>
          ELSE /\ users' = users \cup {newUser}
               /\ nextId' = nextId + 1
               /\ req' = [req EXCEPT ![r] =
                    IF body.role \in ProfileRoles
                    THEN [s EXCEPT !.pc = "register:profile",
                                   !.local = [body |-> body,
                                              newUser |-> newUser]]
                    ELSE Respond(s, 201,
                            [success |-> TRUE,
                             message |-> "User registered successfully",
                             user |-> WithoutPassword(newUser),
                             student_id |-> Null, parent_id |-> Null])]
       /\ UNCHANGED <<subjects, classes, class_subjects, now, issued>>
       /\ Unchanged_others

\* The row register inserts into teachers, students or parents.
ProfileRow(id, body, newUser) ==
    IF body.role = "teacher"
    THEN [id |-> id, user_id |-> newUser.id,
          department_id |-> IF Has(body, "department_id")
                            THEN body.department_id ELSE Null]
    ELSE [id |-> id, user_id |-> newUser.id]

\* The foreign keys of a role profile: its user, and a teacher's department.
ProfileForeignKeysHold(row) ==
    /\ \E u \in users : u.id = row.user_id
    /\ Has(row, "department_id") =>
            \/ row.department_id = Null
            \/ \E d \in departments : d.id = row.department_id

\* register: the role profile is inserted; an insert that fails hands over
\* to the rollback.
RegisterInsertProfile(r, fault) ==
    LET s == [req[r] EXCEPT !.q = @ + 1]
        body == s.local.body
        row == ProfileRow(profileUuid(nextId), body, s.local.newUser)
        ok == ~fault /\ ProfileForeignKeysHold(row)
    IN /\ req[r].pc = "register:profile"
       /\ teachers' = IF ok /\ body.role = "teacher"
                      THEN teachers \cup {row} ELSE teachers
       /\ students' = IF ok /\ body.role = "student"
                      THEN students \cup {row} ELSE students
       /\ parents' = IF ok /\ body.role = "parent"
                     THEN parents \cup {row} ELSE parents
       /\ nextId' = IF ok THEN nextId + 1 ELSE nextId
       /\ req' = [req EXCEPT ![r] =
            IF ok
            THEN Respond(s, 201,
                    [success |-> TRUE,
                     message |-> "User registered successfully",
                     user |-> WithoutPassword(s.local.newUser),
                     student_id |-> IF body.role = "student"
                                    THEN row.id ELSE Null,
                     parent_id |-> IF body.role = "parent"
                                   THEN row.id ELSE Null])
            ELSE [s EXCEPT !.pc = "register:rollback"]]
       /\ UNCHANGED <<users, subjects, classes, class_subjects,
                      student_parents, departments, academic_levels,
                      subject_academic_levels, assignments,
                      assignment_submissions, learning_materials, now, issued>>

\* The message of the error register throws after its rollback.
ProfileFailure(role) ==
    CASE role = "teacher" -> "Failed to create teacher profile"
      [] role = "student" -> "Failed to create student profile"
      [] role = "parent" -> "Failed to create parent profile"

\* register: await supabase.from('users').delete().eq('id', newUser.id),
\* whose result is not looked at, and the error that follows.
RegisterRollback(r, fault) ==
    LET s == [req[r] EXCEPT !.q = @ + 1]
    IN /\ req[r].pc = "register:rollback"
       /\ users' = IF fault THEN users
                   ELSE {u \in users : u.id # s.local.newUser.id}
       /\ req' = [req EXCEPT ![r] =
            Fail(s, 500, ProfileFailure(s.local.body.role))]
       /\ UNCHANGED <<subjects, classes, class_subjects, nextId, now, issued>>
       /\ Unchanged_others

\* createUser up to the e-mail lookup.
CreateUserSelect(r, body) ==
    LET s == [req[r] EXCEPT !.input = body]
        s1 == [s EXCEPT !.q = @ + 1]
        res == UserByEmail(users, body.email)
    IN /\ req[r].pc = "createUser"
       /\ req' = [req EXCEPT ![r] =
            IF ~(RequiredFields \subseteq DOMAIN body)
            THEN Fail(s, 400, "Required fields missing")
            ELSE IF body.role \notin validRoles
            THEN Fail(s, 400, "Invalid role")
            ELSE IF ~res.error
            THEN Fail(s1, 409, "User with this email already exists")
            ELSE [s1 EXCEPT !.pc = "createUser:insert",
                            !.local = [body |-> body]]]
       /\ Unchanged_store /\ UNCHANGED <<now, issued>>

\* createUser: the users row is inserted, and nothing else.
CreateUserInsert(r) ==
    LET s == [req[r] EXCEPT !.q = @ + 1]
        newUser == NewUser(userUuid(nextId), s.local.body)
    IN /\ req[r].pc = "createUser:insert"
       /\ IF EmailTaken(users, newUser.id, newUser.email)
          THEN /\ req' = [req EXCEPT ![r] =
                    Fail(s, 500, "Failed to create user")]
               /\ UNCHANGED <<users, nextId>>
          ELSE /\ users' = users \cup {newUser}
               /\ nextId' = nextId + 1
               /\ req' = [req EXCEPT ![r] = Respond(s, 201,
                    [success |-> TRUE,
                     message |-> "User created successfully",
                     user |-> WithoutPassword(newUser)])]
       /\ UNCHANGED <<subjects, classes, class_subjects, now, issued>>
       /\ Unchanged_others

\* The handlers of the other role groups that the model follows only read.
ReadHandler(r) ==
    LET s == req[r]
    IN /\ s.pc \in ReadHandlers
       /\ req' = [req EXCEPT ![r] =
            Respond([s EXCEPT !.q = @ + 1], 200, [success |-> TRUE])]
       /\ Unchanged_store /\ UNCHANGED <<now, issued>>

(***************************************************************************)
(* adminController: teacher-subject-class assignment.                      *)
(***************************************************************************)
SubjectIds == {"s1", "s9"}
ClassIds == {"c1", "c9"}

\* The bodies a client posts: every combination of ids, and one id omitted.
AssignBodies ==
    [teacher_id : IdInputs, subject_id : SubjectIds, class_id : ClassIds]
        \cup {[teacher_id |-> "u2", subject_id |-> "s1"]}

\* .from('users').select('id, role').eq('id', id) with no role filter
TeacherLookupAnyRole(rows, teacher_id) ==
    Single({[id |-> u.id, role |-> u.role] : u \in {x \in rows : x.id = teacher_id}})

\* .from('users').select('id, role').eq('id', id).eq('role', 'teacher').single()
TeacherLookup(rows, teacher_id) ==
    Single({[id |-> u.id, role |-> u.role] :
                u \in {x \in rows : x.id = teacher_id /\ x.role = "teacher"}})

\* The foreign keys of class_subjects that the insert's embedded select names.
ForeignKeysHold(row) ==
    /\ \E u \in users : u.id = row.teacher_id
    /\ \E x \in subjects : x.id = row.subject_id
    /\ \E c \in classes : c.id = row.class_id

\* A store without a unique constraint on class_subjects.
AssignmentTakenNever(rows, row) == FALSE

\* The unique constraint of class_subjects, as the store enforces it.
AssignmentTaken(rows, row) ==
    \E x \in rows : /\ x.class_id = row.class_id
                    /\ x.subject_id = row.subject_id
                    /\ x.teacher_id = row.teacher_id

\* assignTeacherToSubject: the body is checked and the teacher looked up.
AssignSelectTeacher(r, body) ==
    LET s == [req[r] EXCEPT !.input = body]
    IN /\ req[r].pc = "assignTeacherToSubject"
       /\ IF ~(Has(body, "teacher_id") /\ Has(body, "subject_id")
                /\ Has(body, "class_id"))
          THEN req' = [req EXCEPT ![r] =
                    Fail(s, 400, "teacher_id, subject_id, and class_id are required")]
          ELSE LET res == TeacherLookup(users, body.teacher_id)
                   s1 == [s EXCEPT !.q = @ + 1]
               IN IF res.error
                  THEN req' = [req EXCEPT ![r] =
                        Fail(s1, 404, "Teacher not found or user is not a teacher")]
                  ELSE req' = [req EXCEPT ![r] =
                        [s1 EXCEPT !.pc = "assignTeacherToSubject:subject",
                                   !.local = body]]
       /\ Unchanged_store /\ UNCHANGED <<now, issued>>

AssignSelectSubject(r) ==
    LET s == [req[r] EXCEPT !.q = @ + 1]
        res == Single({x \in subjects : x.id = s.local.subject_id})
    IN /\ req[r].pc = "assignTeacherToSubject:subject"
       /\ IF res.error
          THEN req' = [req EXCEPT ![r] = Fail(s, 404, "Subject not found")]
          ELSE req' = [req EXCEPT ![r] =
                    [s EXCEPT !.pc = "assignTeacherToSubject:class"]]
       /\ Unchanged_store /\ UNCHANGED <<now, issued>>

AssignSelectClass(r) ==
    LET s == [req[r] EXCEPT !.q = @ + 1]
        res == Single({c \in classes : c.id = s.local.class_id})
    IN /\ req[r].pc = "assignTeacherToSubject:class"
       /\ IF res.error
          THEN req' = [req EXCEPT ![r] = Fail(s, 404, "Class not found")]
          ELSE req' = [req EXCEPT ![r] =
                    [s EXCEPT !.pc = "assignTeacherToSubject:existing"]]
       /\ Unchanged_store /\ UNCHANGED <<now, issued>>

\* assignTeacherToSubject without its duplicate check.
AssignSelectExistingSkipped(r) ==
    /\ req[r].pc = "assignTeacherToSubject:existing"
    /\ req' = [req EXCEPT ![r] =
            [req[r] EXCEPT !.q = @ + 1, !.pc = "assignTeacherToSubject:insert"]]
    /\ Unchanged_store /\ UNCHANGED <<now, issued>>

AssignSelectExisting(r) ==
    LET s == [req[r] EXCEPT !.q = @ + 1]
        res == MaybeSingle({x \in class_subjects :
                                /\ x.class_id = s.local.class_id
                                /\ x.subject_id = s.local.subject_id
                                /\ x.teacher_id = s.local.teacher_id})
    IN /\ req[r].pc = "assignTeacherToSubject:existing"
       /\ IF res.found
          THEN req' = [req EXCEPT ![r] = Fail(s, 409,
                    "This teacher is already assigned to teach this subject in this class")]
          ELSE req' = [req EXCEPT ![r] =
                    [s EXCEPT !.pc = "assignTeacherToSubject:insert"]]
       /\ Unchanged_store /\ UNCHANGED <<now, issued>>

AssignInsert(r) ==
    LET s == [req[r] EXCEPT !.q = @ + 1]
        row == [id |-> nextId, class_id |-> s.local.class_id,
                subject_id |-> s.local.subject_id,
                teacher_id |-> s.local.teacher_id]
    IN /\ req[r].pc = "assignTeacherToSubject:insert"
       /\ IF ~ForeignKeysHold(row) \/ AssignmentTaken(class_subjects, row)
          THEN /\ req' = [req EXCEPT ![r] =
                    Fail(s, 500, "Failed to assign teacher to subject")]
               /\ UNCHANGED <<class_subjects, nextId>>
          ELSE /\ class_subjects' = class_subjects \cup {row}
               /\ nextId' = nextId + 1
               /\ req' = [req EXCEPT ![r] = Respond(s, 201,
                    [success |-> TRUE,
                     message |-> "Teacher assigned to subject successfully",
                     assignment |-> row])]
       /\ UNCHANGED <<users, subjects, classes, now, issued>>
       /\ Unchanged_others

\* The (S, T) entries getClassSubjects reads for a class: each junction row
\* with its subject and its teacher embedded.
ClassSubjectsOf(classId) ==
    {[id |-> x.id,
      subject |-> CHOOSE y \in subjects : y.id = x.subject_id,
      teacher |-> LET t == CHOOSE u \in users : u.id = x.teacher_id
                  IN [id |-> t.id, first_name |-> t.first_name,
                      email |-> t.email]] :
        x \in {y \in class_subjects : y.class_id = classId}}

\* getClassSubjects: .select(...).eq('class_id', classId)
GetClassSubjects(r, classId) ==
    LET data == ClassSubjectsOf(classId)
    IN /\ req[r].pc = "getClassSubjects"
       /\ req' = [req EXCEPT ![r] =
            Respond([req[r] EXCEPT !.q = @ + 1, !.input = [classId |-> classId]],
                    200, [success |-> TRUE, count |-> Cardinality(data),
                          subjects |-> data])]
       /\ Unchanged_store /\ UNCHANGED <<now, issued>>

\* removeTeacherAssignment answering success without deleting.
RemoveTeacherAssignmentKeepsRow(r, id) ==
    /\ req[r].pc = "removeTeacherAssignment"
    /\ req' = [req EXCEPT ![r] =
            Respond([req[r] EXCEPT !.q = @ + 1, !.input = [id |-> id]], 200,
                    [success |-> TRUE,
                     message |-> "Teacher assignment removed successfully"])]
    /\ Unchanged_store /\ UNCHANGED <<now, issued>>

\* removeTeacherAssignment: .delete().eq('id', id)
RemoveTeacherAssignment(r, id) ==
    /\ req[r].pc = "removeTeacherAssignment"
    /\ class_subjects' = {x \in class_subjects : x.id # id}
    /\ req' = [req EXCEPT ![r] =
            Respond([req[r] EXCEPT !.q = @ + 1, !.input = [id |-> id]], 200,
                    [success |-> TRUE,
                     message |-> "Teacher assignment removed successfully"])]
    /\ UNCHANGED <<users, subjects, classes, nextId, now, issued>>
    /\ Unchanged_others

(***************************************************************************)
(* adminController: parent-student linking.                                *)
(***************************************************************************)
\* JSON values of a body field that may or may not be an array.
JsonArray(items) == [array |-> TRUE, items |-> items]
JsonString(v) == [array |-> FALSE, value |-> v]

ParentIds == {"p1", "p9"}
StudentIds == {"st1", "st2", "st9"}

StudentIdLists ==
    {<<>>, <<"st1">>, <<"st2">>, <<"st1", "st2">>, <<"st1", "st1">>, <<"st9">>}

\* The bodies a client posts to link-students.
LinkBodies ==
    [parent_id : ParentIds, student_ids : {JsonArray(l) : l \in StudentIdLists}]
        \cup {[parent_id |-> "p1", student_ids |-> JsonString("st1")],
              [parent_id |-> "p1"],
              [student_ids |-> JsonArray(<<>>)]}

\* student_ids.map(student_id => ({ parent_id, student_id }))
StudentParentRecords(body) ==
    [i \in 1..Len(body.student_ids.items) |->
        [parent_id |-> body.parent_id, student_id |-> body.student_ids.items[i]]]

\* The unique constraint of student_parents on (parent_id, student_id) that
\* answers the insert with error code 23505: a record meets a row already
\* stored or an earlier record of the same statement.
LinkTaken(rows, records) ==
    \/ \E i \in DOMAIN records : \E x \in rows :
            x.parent_id = records[i].parent_id
                /\ x.student_id = records[i].student_id
    \/ \E i, j \in DOMAIN records : i < j /\ records[i] = records[j]

\* The foreign keys of student_parents.
LinkForeignKeysHold(records) ==
    \A i \in DOMAIN records :
        /\ \E p \in parents : p.id = records[i].parent_id
        /\ \E st \in students : st.id = records[i].student_id

\* linkParentToStudents accepting an empty student_ids array.
LinkBodyInvalidAllowsEmpty(body) ==
    \/ ~Has(body, "parent_id")
    \/ ~Has(body, "student_ids")
    \/ ~body.student_ids.array

\* !parent_id || !student_ids || !Array.isArray(student_ids)
\*     || student_ids.length === 0
LinkBodyInvalid(body) ==
    \/ ~Has(body, "parent_id")
    \/ ~Has(body, "student_ids")
    \/ ~body.student_ids.array
    \/ Len(body.student_ids.items) = 0

\* linkParentToStudents: the body is checked and the parent looked up.
LinkSelectParent(r, body) ==
    LET s == [req[r] EXCEPT !.input = body]
    IN /\ req[r].pc = "linkParentToStudents"
       /\ IF LinkBodyInvalid(body)
          THEN req' = [req EXCEPT ![r] =
                    Fail(s, 400, "parent_id and student_ids array are required")]
          ELSE LET res == Single({x \in parents : x.id = body.parent_id})
                   s1 == [s EXCEPT !.q = @ + 1]
               IN IF res.error
                  THEN req' = [req EXCEPT ![r] = Fail(s1, 404, "Parent not found")]
                  ELSE req' = [req EXCEPT ![r] =
                        [s1 EXCEPT !.pc = "linkParentToStudents:insert",
                                   !.local = body]]
       /\ Unchanged_store /\ UNCHANGED <<now, issued>>

\* The rows one insert statement stores for its records, keys from nextId.
InsertedRows(records) ==
    {[id |-> nextId + i - 1, parent_id |-> records[i].parent_id,
      student_id |-> records[i].student_id] : i \in DOMAIN records}

\* linkParentToStudents inserting its records one by one: the records that
\* meet no stored row are kept when another one is rejected.
LinkInsertRowByRow(r) ==
    LET s == [req[r] EXCEPT !.q = @ + 1]
        records == StudentParentRecords(s.local)
        free == {x \in InsertedRows(records) :
                    ~\E y \in student_parents :
                        y.parent_id = x.parent_id /\ y.student_id = x.student_id}
    IN /\ req[r].pc = "linkParentToStudents:insert"
       /\ student_parents' = student_parents \cup free
       /\ nextId' = nextId + Len(records)
       /\ req' = [req EXCEPT ![r] =
            IF free = InsertedRows(records)
            THEN Respond(s, 201, [success |-> TRUE, data |-> free])
            ELSE Fail(s, 409,
                    "One or more students are already linked to this parent")]
       /\ UNCHANGED <<users, subjects, classes, class_subjects, parents,
                      students, departments, academic_levels,
                      subject_academic_levels, now, issued>>
       /\ Unchanged_coursework

\* linkParentToStudents: the bulk insert, one statement for all records.
LinkInsert(r) ==
    LET s == [req[r] EXCEPT !.q = @ + 1]
        records == StudentParentRecords(s.local)
    IN /\ req[r].pc = "linkParentToStudents:insert"
       /\ IF LinkTaken(student_parents, records)
          THEN /\ req' = [req EXCEPT ![r] = Fail(s, 409,
                    "One or more students are already linked to this parent")]
               /\ UNCHANGED <<student_parents, nextId>>
          ELSE IF ~LinkForeignKeysHold(records)
          THEN /\ req' = [req EXCEPT ![r] =
                    Fail(s, 500, "Failed to link parent to students")]
               /\ UNCHANGED <<student_parents, nextId>>
          ELSE /\ student_parents' = student_parents \cup InsertedRows(records)
               /\ nextId' = nextId + Len(records)
               /\ req' = [req EXCEPT ![r] = Respond(s, 201,
                    [success |-> TRUE,
                     message |-> "Parent linked to students successfully",
                     data |-> InsertedRows(records)])]
       /\ UNCHANGED <<users, subjects, classes, class_subjects, parents,
                      students, departments, academic_levels,
                      subject_academic_levels, now, issued>>
       /\ Unchanged_coursework

UnlinkBodies ==
    [parent_id : ParentIds, student_id : {"st1", "st2"}]
        \cup {[parent_id |-> "p1"]}

\* unlinkParentFromStudent answering 404 when there is nothing to delete.
UnlinkParentFromStudentStrict(r, body) ==
    LET s == [req[r] EXCEPT !.input = body, !.q = @ + 1]
        rest == {x \in student_parents :
                    ~(x.parent_id = body.parent_id
                        /\ x.student_id = body.student_id)}
    IN /\ req[r].pc = "unlinkParentFromStudent"
       /\ Has(body, "parent_id") /\ Has(body, "student_id")
       /\ student_parents' = rest
       /\ req' = [req EXCEPT ![r] =
            IF rest = student_parents
            THEN Fail(s, 404, "Link not found")
            ELSE Respond(s, 200, [success |-> TRUE])]
       /\ UNCHANGED <<users, subjects, classes, class_subjects, parents,
                      students, departments, academic_levels,
                      subject_academic_levels, nextId, now, issued>>
       /\ Unchanged_coursework

\* unlinkParentFromStudent: .delete().eq('parent_id', ..).eq('student_id', ..)
UnlinkParentFromStudent(r, body) ==
    LET s == [req[r] EXCEPT !.input = body]
    IN /\ req[r].pc = "unlinkParentFromStudent"
       /\ IF ~(Has(body, "parent_id") /\ Has(body, "student_id"))
          THEN /\ req' = [req EXCEPT ![r] =
                    Fail(s, 400, "parent_id and student_id are required")]
               /\ UNCHANGED student_parents
          ELSE /\ student_parents' =
                    {x \in student_parents :
                        ~(x.parent_id = body.parent_id
                            /\ x.student_id = body.student_id)}
               /\ req' = [req EXCEPT ![r] =
                    Respond([s EXCEPT !.q = @ + 1], 200,
                        [success |-> TRUE,
                         message |-> "Parent unlinked from student successfully"])]
       /\ UNCHANGED <<users, subjects, classes, class_subjects, parents,
                      students, departments, academic_levels,
                      subject_academic_levels, nextId, now, issued>>
       /\ Unchanged_coursework

(***************************************************************************)
(* parentController: what a parent reads about a child.  The three         *)
(* handlers differ in the table they read last.                            *)
(***************************************************************************)
ChildHandlers ==
    {"getChildPerformance", "getChildAssignments", "getChildAttendance"}

\* Tables grades and attendance, which no handler of the model writes.
grades ==
    {[id |-> "g1", student_id |-> "st1", subject_id |-> "s1", marks |-> 80],
     [id |-> "g2", student_id |-> "st2", subject_id |-> "s1", marks |-> 55]}

attendance ==
    {[id |-> "a1", student_id |-> "st1", status |-> "present"],
     [id |-> "a2", student_id |-> "st1", status |-> "absent"],
     [id |-> "a3", student_id |-> "st2", status |-> "late"]}

\* The handler's first query: the profile of the calling parent.
ChildSelectParent(r, studentId) ==
    LET s == [req[r] EXCEPT !.input = [studentId |-> studentId], !.q = @ + 1]
        res == Single({[id |-> x.id] :
                        x \in {y \in parents : y.user_id = s.user.id}})
    IN /\ req[r].pc \in ChildHandlers
       /\ req' = [req EXCEPT ![r] =
            IF res.error THEN Fail(s, 404, "Parent profile not found")
            ELSE [s EXCEPT !.pc = "childData:relationship",
                           !.local = [handler |-> req[r].pc,
                                      studentId |-> studentId,
                                      parent |-> res.data]]]
       /\ Unchanged_store /\ UNCHANGED <<now, issued>>

\* The second query with the check of the link left out.
ChildSelectRelationshipUnchecked(r) ==
    /\ req[r].pc = "childData:relationship"
    /\ req' = [req EXCEPT ![r] = [@ EXCEPT !.pc = "childData:fetch",
                                           !.q = @ + 1]]
    /\ Unchanged_store /\ UNCHANGED <<now, issued>>

\* The second query: .from('student_parents').select('id')
\* .eq('parent_id', parent.id).eq('student_id', studentId).single()
ChildSelectRelationship(r) ==
    LET s == [req[r] EXCEPT !.q = @ + 1]
        res == Single({[id |-> x.id] :
                        x \in {y \in student_parents :
                                 /\ y.parent_id = s.local.parent.id
                                 /\ y.student_id = s.local.studentId}})
    IN /\ req[r].pc = "childData:relationship"
       /\ req' = [req EXCEPT ![r] =
            IF res.error THEN Fail(s, 403, "Access denied")
            ELSE [s EXCEPT !.pc = "childData:fetch"]]
       /\ Unchanged_store /\ UNCHANGED <<now, issued>>

\* The answer of each handler from the rows of the student; the percentage
\* of the attendance summary is left out.
ChildData(handler, studentId) ==
    CASE handler = "getChildPerformance" ->
            [success |-> TRUE,
             grades |-> {x \in grades : x.student_id = studentId}]
      [] handler = "getChildAssignments" ->
            [success |-> TRUE,
             count |-> Cardinality({x \in assignment_submissions :
                                        x.student_id = studentId}),
             submissions |-> {x \in assignment_submissions :
                                x.student_id = studentId}]
      [] handler = "getChildAttendance" ->
            [success |-> TRUE,
             attendance |->
                [records |-> {x \in attendance : x.student_id = studentId},
                 summary |->
                    [totalDays |-> Cardinality({x \in attendance :
                                        x.student_id = studentId}),
                     presentDays |-> Cardinality({x \in attendance :
                                        /\ x.student_id = studentId
                                        /\ x.status \in {"present", "late"}})]]]

\* The third query and the answer.
ChildFetch(r) ==
    LET s == [req[r] EXCEPT !.q = @ + 1]
    IN /\ req[r].pc = "childData:fetch"
       /\ req' = [req EXCEPT ![r] =
            Respond(s, 200, ChildData(s.local.handler, s.local.studentId))]
       /\ Unchanged_store /\ UNCHANGED <<now, issued>>

(***************************************************************************)
(* Assignments and their submissions: submitAssignment of the student      *)
(* controller; updateAssignment, deleteAssignment and gradeSubmission of   *)
(* the teacher controller.  A row of assignment_submissions holds the      *)
(* marks as the text of the number, or null; its feedback and its time     *)
(* stamps are left out.                                                    *)
(***************************************************************************)
Submission(id, assignment, student, status, marks) ==
    [id |-> id, assignment_id |-> assignment, student_id |-> student,
     submission_text |-> "essay", status |-> status, marks_obtained |-> marks,
     graded_by |-> Null]

\* The primary keys the store hands out to submissions.
submissionUuid(n) == <<"b3", "b4", "b5", "b6", "b7">>[n]

\* submitAssignment: the profile of the calling student.
SubmitSelectStudent(r, assignmentId, body) ==
    LET s == [req[r] EXCEPT !.input = [assignmentId |-> assignmentId,
                                       body |-> body],
                            !.q = @ + 1]
        res == Single({[id |-> x.id] :
                        x \in {y \in students : y.user_id = s.user.id}})
    IN /\ req[r].pc = "submitAssignment"
       /\ req' = [req EXCEPT ![r] =
            IF res.error THEN Fail(s, 404, "Student profile not found")
            ELSE [s EXCEPT !.pc = "submitAssignment:assignment",
                           !.local = [assignmentId |-> assignmentId,
                                      body |-> body, student |-> res.data]]]
       /\ Unchanged_store /\ UNCHANGED <<now, issued>>

\* submitAssignment: the due date of the assignment.
SubmitSelectAssignment(r) ==
    LET s == [req[r] EXCEPT !.q = @ + 1]
        res == Single({[due_date |-> x.due_date] :
                        x \in {y \in assignments : y.id = s.local.assignmentId}})
    IN /\ req[r].pc = "submitAssignment:assignment"
       /\ req' = [req EXCEPT ![r] =
            IF res.error THEN Fail(s, 404, "Assignment not found")
            ELSE [s EXCEPT !.pc = "submitAssignment:upsert",
                           !.local = [assignmentId |-> s.local.assignmentId,
                                      body |-> s.local.body,
                                      student |-> s.local.student,
                                      assignment |-> res.data]]]
       /\ Unchanged_store /\ UNCHANGED <<now, issued>>

\* .upsert({assignment_id, student_id, submission_text, file_url, status,
\* submitted_at}, {onConflict: 'assignment_id,student_id'}): the row of the
\* pair takes the columns given and keeps its other columns; a pair without
\* a row gets a new one.
Upsert(rows, id, given) ==
    LET old == {x \in rows : /\ x.assignment_id = given.assignment_id
                             /\ x.student_id = given.student_id}
    IN IF old = {}
       THEN rows \cup {[id |-> id, assignment_id |-> given.assignment_id,
                        student_id |-> given.student_id,
                        submission_text |-> given.submission_text,
                        status |-> given.status, marks_obtained |-> Null,
                        graded_by |-> Null]}
       ELSE (rows \ old) \cup {ApplyUpdates(x, given) : x \in old}

\* submitAssignment: the upsert and the answer.
SubmitUpsert(r) ==
    LET s == [req[r] EXCEPT !.q = @ + 1]
        isLate == now > s.local.assignment.due_date
        given == [assignment_id |-> s.local.assignmentId,
                  student_id |-> s.local.student.id,
                  submission_text |-> s.local.body.submission_text,
                  status |-> IF isLate THEN "late" ELSE "submitted"]
        new == Upsert(assignment_submissions, submissionUuid(nextId), given)
        ok == /\ \E a \in assignments : a.id = given.assignment_id
              /\ \E x \in students : x.id = given.student_id
    IN /\ req[r].pc = "submitAssignment:upsert"
       /\ IF ~ok
          THEN /\ req' = [req EXCEPT ![r] =
                    Fail(s, 500, "Failed to submit assignment")]
               /\ UNCHANGED <<assignment_submissions, nextId>>
          ELSE /\ assignment_submissions' = new
               /\ nextId' = IF Cardinality(new) > Cardinality(assignment_submissions)
                            THEN nextId + 1 ELSE nextId
               /\ req' = [req EXCEPT ![r] = Respond(s, 200,
                    [success |-> TRUE,
                     message |-> "Assignment submitted successfully",
                     submission |-> CHOOSE x \in new :
                        /\ x.assignment_id = given.assignment_id
                        /\ x.student_id = given.student_id])]
       /\ UNCHANGED <<users, subjects, classes, class_subjects, parents,
                      students, student_parents, departments, academic_levels,
                      subject_academic_levels, teachers, assignments,
                      learning_materials, now, issued>>

\* The updates object updateAssignment builds from the body.
AssignmentUpdates(body) ==
    [f \in {g \in DOMAIN body \cap {"title", "description", "instructions",
                                     "due_date", "total_marks",
                                     "attachment_url", "is_published"} :
                g \in {"description", "instructions", "attachment_url",
                       "is_published"} \/ body[g] # ""} |-> body[f]]

\* updateAssignment: .update(updates).eq('id', id).eq('teacher_id', teacherId)
UpdateAssignment(r, id, body) ==
    LET s == [req[r] EXCEPT !.input = [id |-> id, body |-> body], !.q = @ + 1]
        res == Single({x \in assignments :
                        x.id = id /\ x.teacher_id = s.user.id})
    IN /\ req[r].pc = "updateAssignment"
       /\ IF res.error
          THEN /\ req' = [req EXCEPT ![r] =
                    Fail(s, 500, "Failed to update assignment")]
               /\ UNCHANGED assignments
          ELSE LET new == ApplyUpdates(res.data, AssignmentUpdates(body))
               IN /\ assignments' = (assignments \ {res.data}) \cup {new}
                  /\ req' = [req EXCEPT ![r] = Respond(s, 200,
                        [success |-> TRUE,
                         message |-> "Assignment updated successfully",
                         assignment |-> new])]
       /\ UNCHANGED <<users, subjects, classes, class_subjects, parents,
                      students, student_parents, departments, academic_levels,
                      subject_academic_levels, teachers, assignment_submissions,
                      learning_materials, nextId, now, issued>>

\* deleteAssignment: .delete().eq('id', id).eq('teacher_id', teacherId).
\* What the store does with the submissions of a deleted assignment is
\* set by the schema: onDelete is "cascade" or "restrict".
DeleteAssignment(r, id, onDelete) ==
    LET s == [req[r] EXCEPT !.input = [id |-> id], !.q = @ + 1]
        matched == {x \in assignments : x.id = id /\ x.teacher_id = s.user.id}
        referring == {x \in assignment_submissions :
                        \E a \in matched : x.assignment_id = a.id}
    IN /\ req[r].pc = "deleteAssignment"
       /\ IF referring # {} /\ onDelete = "restrict"
          THEN /\ req' = [req EXCEPT ![r] =
                    Fail(s, 500, "Failed to delete assignment")]
               /\ UNCHANGED <<assignments, assignment_submissions>>
          ELSE /\ assignments' = assignments \ matched
               /\ assignment_submissions' = assignment_submissions \ referring
               /\ req' = [req EXCEPT ![r] = Respond(s, 200,
                    [success |-> TRUE,
                     message |-> "Assignment deleted successfully"])]
       /\ UNCHANGED <<users, subjects, classes, class_subjects, parents,
                      students, student_parents, departments, academic_levels,
                      subject_academic_levels, teachers, learning_materials,
                      nextId, now, issued>>

\* gradeSubmission: .update({marks_obtained, feedback, status: 'graded',
\* graded_by: teacherId, ..}).eq('id', id).select().single()
GradeSubmission(r, id, body) ==
    LET s == [req[r] EXCEPT !.input = [id |-> id, body |-> body]]
        s1 == [s EXCEPT !.q = @ + 1]
        res == Single({x \in assignment_submissions : x.id = id})
    IN /\ req[r].pc = "gradeSubmission"
       /\ IF ~Has(body, "marks_obtained")
          THEN /\ req' = [req EXCEPT ![r] =
                    Fail(s, 400, "Marks obtained is required")]
               /\ UNCHANGED assignment_submissions
          ELSE IF res.error
          THEN /\ req' = [req EXCEPT ![r] =
                    Fail(s1, 500, "Failed to grade submission")]
               /\ UNCHANGED assignment_submissions
          ELSE LET new == [res.data EXCEPT
                            !.marks_obtained = body.marks_obtained,
                            !.status = "graded", !.graded_by = s.user.id]
               IN /\ assignment_submissions' =
                        (assignment_submissions \ {res.data}) \cup {new}
                  /\ req' = [req EXCEPT ![r] = Respond(s1, 200,
                        [success |-> TRUE,
                         message |-> "Submission graded successfully",
                         submission |-> new])]
       /\ UNCHANGED <<users, subjects, classes, class_subjects, parents,
                      students, student_parents, departments, academic_levels,
                      subject_academic_levels, teachers, assignments,
                      learning_materials, nextId, now, issued>>

(***************************************************************************)
(* adminController: subjects of an academic level.                         *)
(***************************************************************************)
LevelIds == {"l1", "l9"}

\* The bodies a client posts to academic-levels/assign-subject.
LevelBodies ==
    [academic_level_id : LevelIds, subject_id : SubjectIds]
        \cup [academic_level_id : LevelIds, subject_id : SubjectIds,
              is_required : BOOLEAN]
        \cup {[subject_id |-> "s1"]}

\* UNIQUE(subject_id, academic_level_id)
LevelSubjectTaken(rows, row) ==
    \E x \in rows : /\ x.subject_id = row.subject_id
                    /\ x.academic_level_id = row.academic_level_id

\* subject_id REFERENCES subjects(id), academic_level_id REFERENCES
\* academic_levels(id)
LevelForeignKeysHold(row) ==
    /\ \E x \in subjects : x.id = row.subject_id
    /\ \E l \in academic_levels : l.id = row.academic_level_id

\* assignSubjectToAcademicLevel: the body is checked and the row inserted.
AssignSubjectToAcademicLevel(r, body) ==
    LET s == [req[r] EXCEPT !.input = body]
        s1 == [s EXCEPT !.q = @ + 1]
    IN /\ req[r].pc = "assignSubjectToAcademicLevel"
       /\ IF ~(Has(body, "academic_level_id") /\ Has(body, "subject_id"))
          THEN /\ req' = [req EXCEPT ![r] =
                    Fail(s, 400, "academic_level_id and subject_id are required")]
               /\ UNCHANGED <<subject_academic_levels, nextId>>
          ELSE LET row == [id |-> nextId,
                           academic_level_id |-> body.academic_level_id,
                           subject_id |-> body.subject_id,
                           is_required |-> IF Has(body, "is_required")
                                           THEN body.is_required ELSE TRUE]
               IN IF LevelSubjectTaken(subject_academic_levels, row)
                  THEN /\ req' = [req EXCEPT ![r] = Fail(s1, 409,
                            "Subject already assigned to this academic level")]
                       /\ UNCHANGED <<subject_academic_levels, nextId>>
                  ELSE IF ~LevelForeignKeysHold(row)
                  THEN /\ req' = [req EXCEPT ![r] = Fail(s1, 500,
                            "Failed to assign subject to academic level")]
                       /\ UNCHANGED <<subject_academic_levels, nextId>>
                  ELSE /\ subject_academic_levels' =
                            subject_academic_levels \cup {row}
                       /\ nextId' = nextId + 1
                       /\ req' = [req EXCEPT ![r] = Respond(s1, 201,
                            [success |-> TRUE,
                             message |->
                                "Subject assigned to academic level successfully",
                             data |-> row])]
       /\ UNCHANGED <<users, subjects, classes, class_subjects, parents,
                      students, student_parents, departments, academic_levels,
                      now, issued>>
       /\ Unchanged_coursework

\* removeSubjectFromAcademicLevel: .delete().eq('id', id)
RemoveSubjectFromAcademicLevel(r, id) ==
    /\ req[r].pc = "removeSubjectFromAcademicLevel"
    /\ subject_academic_levels' = {x \in subject_academic_levels : x.id # id}
    /\ req' = [req EXCEPT ![r] =
            Respond([req[r] EXCEPT !.q = @ + 1, !.input = [id |-> id]], 200,
                [success |-> TRUE,
                 message |-> "Subject removed from academic level successfully"])]
    /\ UNCHANGED <<users, subjects, classes, class_subjects, parents,
                   students, student_parents, departments, academic_levels,
                   nextId, now, issued>>
    /\ Unchanged_coursework

(***************************************************************************)
(* hodController: subjects of the caller's department.                     *)
(***************************************************************************)
\* gen_random_uuid(): the n-th primary key the store hands out to a subject.
uuid(n) == <<"s1", "s2", "s3", "s4", "s5", "s6", "s7">>[n]

DepartmentIds == {"d1", "d2"}

\* The bodies a client posts to create a subject; department_id is not a
\* field the handler reads.
CreateSubjectBodies ==
    [name : {"Chemistry"}, code : {"CHEM", "MATH"}]
        \cup [name : {"Chemistry"}, code : {"CHEM"}, department_id : DepartmentIds]

UpdateSubjectBodies ==
    {[name |-> "Algebra"], [code |-> "PHY"],
     [name |-> "Algebra", department_id |-> "d2"]}

\* const updates = {}; if (name) ..; if (code) ..; if (description !==
\* undefined) ..: the three fields the handler copies, and no other.
SubjectUpdates(body) ==
    [f \in {g \in DOMAIN body \cap {"name", "code", "description"} :
                g = "description" \/ body[g] # ""} |-> body[f]]

\* .from('departments').select('id').eq('hod_id', userId) answering whatever
\* department comes first.
HodDepartmentAny(userId) ==
    IF departments = {} THEN [error |-> TRUE]
    ELSE [error |-> FALSE,
          data |-> [id |-> (CHOOSE d \in departments : TRUE).id]]

\* .from('departments').select('id').eq('hod_id', userId).single()
HodDepartment(userId) ==
    Single({[id |-> d.id] : d \in {x \in departments : x.hod_id = userId}})

\* The unique constraint of subjects.code that answers with code 23505.
SubjectCodeTaken(rows, id, code) == \E x \in rows : x.id # id /\ x.code = code

\* createSubject: the caller's department is resolved.
CreateSubjectSelectDepartment(r, body) ==
    LET s == [req[r] EXCEPT !.input = body, !.q = @ + 1]
        res == HodDepartment(s.user.id)
    IN /\ req[r].pc = "createSubject"
       /\ IF res.error
          THEN req' = [req EXCEPT ![r] = Fail(s, 404, "Department not found")]
          ELSE req' = [req EXCEPT ![r] =
                    [s EXCEPT !.pc = "createSubject:insert",
                              !.local = [name |-> body.name, code |-> body.code,
                                         department |-> res.data]]]
       /\ Unchanged_store /\ UNCHANGED <<now, issued>>

\* createSubject: the insert.
CreateSubjectInsert(r) ==
    LET s == [req[r] EXCEPT !.q = @ + 1]
        row == [id |-> uuid(nextId), name |-> s.local.name,
                code |-> s.local.code, description |-> Null,
                department_id |-> s.local.department.id]
    IN /\ req[r].pc = "createSubject:insert"
       /\ IF SubjectCodeTaken(subjects, row.id, row.code)
          THEN /\ req' = [req EXCEPT ![r] =
                    Fail(s, 409, "Subject with this code already exists")]
               /\ UNCHANGED <<subjects, nextId>>
          ELSE IF ~\E d \in departments : d.id = row.department_id
          THEN /\ req' = [req EXCEPT ![r] =
                    Fail(s, 500, "Failed to create subject")]
               /\ UNCHANGED <<subjects, nextId>>
          ELSE /\ subjects' = subjects \cup {row}
               /\ nextId' = nextId + 1
               /\ req' = [req EXCEPT ![r] = Respond(s, 201,
                    [success |-> TRUE,
                     message |-> "Subject created successfully",
                     subject |-> row])]
       /\ UNCHANGED <<users, classes, class_subjects, now, issued>>
       /\ Unchanged_others

\* updateSubject: the caller's department is resolved.
UpdateSubjectSelectDepartment(r, id, body) ==
    LET s == [req[r] EXCEPT !.input = [id |-> id, body |-> body], !.q = @ + 1]
        res == HodDepartment(s.user.id)
    IN /\ req[r].pc = "updateSubject"
       /\ IF res.error
          THEN req' = [req EXCEPT ![r] = Fail(s, 403, "Access denied")]
          ELSE req' = [req EXCEPT ![r] =
                    [s EXCEPT !.pc = "updateSubject:update",
                              !.local = [id |-> id,
                                         updates |-> SubjectUpdates(body),
                                         department |-> res.data]]]
       /\ Unchanged_store /\ UNCHANGED <<now, issued>>

\* updateSubject whose update matches on the id alone.
UpdateSubjectUpdateAnyDepartment(r) ==
    LET s == [req[r] EXCEPT !.q = @ + 1]
        res == Single({x \in subjects : x.id = s.local.id})
    IN /\ req[r].pc = "updateSubject:update"
       /\ IF res.error
          THEN /\ req' = [req EXCEPT ![r] =
                    Fail(s, 500, "Failed to update subject")]
               /\ UNCHANGED subjects
          ELSE LET new == ApplyUpdates(res.data, s.local.updates)
               IN /\ subjects' = (subjects \ {res.data}) \cup {new}
                  /\ req' = [req EXCEPT ![r] = Respond(s, 200,
                        [success |-> TRUE,
                         message |-> "Subject updated successfully",
                         subject |-> new])]
       /\ UNCHANGED <<users, classes, class_subjects, nextId, now, issued>>
       /\ Unchanged_others

\* updateSubject: .update(updates).eq('id', id).eq('department_id', ..)
UpdateSubjectUpdate(r) ==
    LET s == [req[r] EXCEPT !.q = @ + 1]
        res == Single({x \in subjects :
                        /\ x.id = s.local.id
                        /\ x.department_id = s.local.department.id})
    IN /\ req[r].pc = "updateSubject:update"
       /\ IF res.error
          THEN /\ req' = [req EXCEPT ![r] =
                    Fail(s, 500, "Failed to update subject")]
               /\ UNCHANGED subjects
          ELSE LET new == ApplyUpdates(res.data, s.local.updates)
               IN IF SubjectCodeTaken(subjects, new.id, new.code)
                  THEN /\ req' = [req EXCEPT ![r] =
                            Fail(s, 500, "Failed to update subject")]
                       /\ UNCHANGED subjects
                  ELSE /\ subjects' = (subjects \ {res.data}) \cup {new}
                       /\ req' = [req EXCEPT ![r] = Respond(s, 200,
                            [success |-> TRUE,
                             message |-> "Subject updated successfully",
                             subject |-> new])]
       /\ UNCHANGED <<users, classes, class_subjects, nextId, now, issued>>
       /\ Unchanged_others

(***************************************************************************)
(* hodController: learning materials.                                      *)
(***************************************************************************)
\* .from('learning_materials').select('*, subject:subjects!inner(..)')
\* .eq('subject.department_id', departmentId)
DepartmentMaterials(departmentId) ==
    {m \in learning_materials :
        \E x \in subjects : x.id = m.subject_id
                             /\ x.department_id = departmentId}

\* getDepartmentMaterials: the caller's department is resolved.
GetDepartmentMaterialsSelect(r) ==
    LET s == [req[r] EXCEPT !.q = @ + 1]
        res == HodDepartment(s.user.id)
    IN /\ req[r].pc = "getDepartmentMaterials"
       /\ req' = [req EXCEPT ![r] =
            IF res.error THEN Fail(s, 404, "Department not found")
            ELSE [s EXCEPT !.pc = "getDepartmentMaterials:fetch",
                           !.local = [department |-> res.data]]]
       /\ Unchanged_store /\ UNCHANGED <<now, issued>>

\* getDepartmentMaterials: the materials of the department's subjects.
GetDepartmentMaterialsFetch(r) ==
    LET s == [req[r] EXCEPT !.q = @ + 1]
        data == DepartmentMaterials(s.local.department.id)
    IN /\ req[r].pc = "getDepartmentMaterials:fetch"
       /\ req' = [req EXCEPT ![r] = Respond(s, 200,
                [success |-> TRUE, count |-> Cardinality(data),
                 materials |-> data])]
       /\ Unchanged_store /\ UNCHANGED <<now, issued>>

\* approveMaterial: .update({is_approved: true, approved_by: userId})
\* .eq('id', id).select().single()
ApproveMaterial(r, id) ==
    LET s == [req[r] EXCEPT !.input = [id |-> id], !.q = @ + 1]
        res == Single({m \in learning_materials : m.id = id})
    IN /\ req[r].pc = "approveMaterial"
       /\ IF res.error
          THEN /\ req' = [req EXCEPT ![r] =
                    Fail(s, 500, "Failed to approve material")]
               /\ UNCHANGED learning_materials
          ELSE LET new == [res.data EXCEPT !.is_approved = TRUE,
                                          !.approved_by = s.user.id]
               IN /\ learning_materials' =
                        (learning_materials \ {res.data}) \cup {new}
                  /\ req' = [req EXCEPT ![r] = Respond(s, 200,
                        [success |-> TRUE,
                         message |-> "Material approved successfully",
                         material |-> new])]
       /\ UNCHANGED <<users, subjects, classes, class_subjects, parents,
                      students, student_parents, departments, academic_levels,
                      subject_academic_levels, teachers, assignments,
                      assignment_submissions, nextId, now, issued>>

(***************************************************************************)
(* What the clients send.                                                  *)
(***************************************************************************)
Bearer(t) == Header(<<Word("Bearer"), SP, Tok(t)>>)

IssuedTokens == {x.token : x \in issued}

\* A token signed with a guessed key, and a token whose payload was edited.
Forge(t) == [t EXCEPT !.sig = Sign(t.payload, "guessed-key")]
Tamper(t) == [t EXCEPT !.payload.role = "admin", !.payload.userId = "u1"]

AdminRow ==
    [id |-> "u1", email |-> "admin@school.com", role |-> "admin",
     first_name |-> "Ann", is_active |-> TRUE,
     password_hash |-> bcryptHash(PwAdmin)]

SecondRow(role) ==
    [id |-> "u2", email |-> "u2@school.com", role |-> role,
     first_name |-> "Ann", is_active |-> TRUE,
     password_hash |-> bcryptHash(PwAdmin)]

NoFamilies == parents = {} /\ students = {} /\ student_parents = {}

NoAcademicStructure ==
    departments = {} /\ academic_levels = {} /\ subject_academic_levels = {}

NoCoursework ==
    /\ teachers = {} /\ assignments = {} /\ assignment_submissions = {}
    /\ learning_materials = {}

EmptySchool ==
    /\ NoCoursework
    /\ subjects = {} /\ classes = {} /\ class_subjects = {} /\ nextId = 1
    /\ NoFamilies /\ NoAcademicStructure

(***************************************************************************)
(* SpecAuth: sessions against administrative changes.  Two requests run    *)
(* concurrently; the administrator changes, deactivates and deletes the    *)
(* second user while that user's tokens are in use.                        *)
(***************************************************************************)
AuthRoutes ==
    {"GET /api/auth/me", "PUT /api/admin/users/:id",
     "DELETE /api/admin/users/:id", "PUT /api/admin/users/:id/activate",
     "PUT /api/admin/users/:id/deactivate", "GET /api/teacher/classes",
     "GET /api/student/dashboard"}

AuthLoginBodies ==
    {[email |-> "admin@school.com", password |-> PwAdmin],
     [email |-> "u2@school.com", password |-> PwAdmin],
     [email |-> "u2@school.com", password |-> PwNew]}

AuthUpdateBodies ==
    {[role |-> "teacher"], [role |-> "student"], [is_active |-> FALSE],
     [is_active |-> TRUE]}

InitAuth ==
    /\ users = {AdminRow, SecondRow("teacher")}
    /\ EmptySchool
    /\ now = 0
    /\ issued = {}
    /\ req = [r \in Slots |-> Idle]

NextAuth ==
    \/ \E r \in Slots :
            TokenBudget(MaxTokens) /\ Arrive(r, "POST /api/auth/login", NoHeader)
    \/ \E r \in Slots, route \in AuthRoutes, t \in IssuedTokens :
            Arrive(r, route, Bearer(t))
    \/ \E r \in Slots : AuthFetch(r)
    \/ \E r \in Slots, b \in AuthLoginBodies : LoginSelect(r, b)
    \/ \E r \in Slots : LoginUpdate(r)
    \/ \E r \in Slots, id \in {"u2", "u9"}, b \in AuthUpdateBodies :
            UpdateUser(r, id, b)
    \/ \E r \in Slots, id \in UserIds : DeleteUser(r, id)
    \/ \E r \in Slots, id \in UserIds : ActivateUser(r, id)
    \/ \E r \in Slots, id \in UserIds : DeactivateUser(r, id)
    \/ \E r \in Slots : ReadHandler(r)
    \/ \E r \in Slots : Close(r)

SpecAuth == InitAuth /\ [][NextAuth]_vars

(***************************************************************************)
(* SpecGate: every role against every route group.  One request at a time; *)
(* the administrator moves the second user through the six roles.          *)
(***************************************************************************)
GateRoutes ==
    {"GET /", "GET /api/health", "POST /api/auth/register",
     "GET /api/auth/me", "PUT /api/admin/users/:id",
     "GET /api/headmaster/dashboard", "GET /api/hod/department",
     "GET /api/teacher/classes", "GET /api/parent/children",
     "GET /api/student/dashboard"}

GateLoginBodies ==
    {[email |-> "Admin@School.com", password |-> PwAdmin],
     [email |-> "u2@school.com", password |-> PwAdmin],
     [email |-> "u2@school.com"]}

RegisterBodiesInvalid ==
    {[email |-> "new@school.com", password |-> PwNew],
     [email |-> "new@school.com", password |-> PwNew, role |-> "principal",
      first_name |-> "Bob", last_name |-> "B"]}

GateHeaders == {NoHeader} \cup {Bearer(t) : t \in IssuedTokens}

InitGate ==
    /\ \E role \in Roles : users = {AdminRow, SecondRow(role)}
    /\ EmptySchool
    /\ now = 0
    /\ issued = {}
    /\ req = [r \in Slots |-> Idle]

NextGate ==
    \/ TokenBudget(MaxTokens) /\ Arrive("r1", "POST /api/auth/login", NoHeader)
    \/ \E route \in GateRoutes, h \in GateHeaders : Arrive("r1", route, h)
    \/ AuthFetch("r1")
    \/ \E b \in GateLoginBodies : LoginSelect("r1", b)
    \/ LoginUpdate("r1")
    \/ \E b \in RegisterBodiesInvalid : RegisterRejected("r1", b)
    \/ \E role \in Roles : UpdateUser("r1", "u2", [role |-> role])
    \/ ReadHandler("r1")
    \/ Close("r1")

SpecGate == InitGate /\ [][NextGate]_vars

(***************************************************************************)
(* SpecToken: the token codec against the clock and against what clients   *)
(* put into the Authorization header.  One request at a time.              *)
(***************************************************************************)
TokenRoutes == {"GET /", "GET /api/auth/me", "GET /api/teacher/classes"}

ClientTokens ==
    IssuedTokens \cup {Forge(t) : t \in IssuedTokens}
        \cup {Tamper(t) : t \in IssuedTokens}

ClientHeaders ==
    {NoHeader, Header(<<>>), Header(<<Word("Bearer")>>),
     Header(<<Word("Bearer"), SP>>),
     Header(<<Word("Bearer"), SP, Word("garbage")>>)}
        \cup {Bearer(t) : t \in ClientTokens}
        \cup {Header(<<Tok(t)>>) : t \in IssuedTokens}
        \cup {Header(<<Word("Bearer"), SP, SP, Tok(t)>>) : t \in IssuedTokens}

TokenLoginBodies ==
    {[email |-> "admin@school.com", password |-> PwAdmin],
     [email |-> "u2@school.com", password |-> PwAdmin]}

InitToken ==
    /\ users = {AdminRow, SecondRow("teacher")}
    /\ EmptySchool
    /\ now = 0
    /\ issued = {}
    /\ req = [r \in Slots |-> Idle]

NextToken ==
    \/ TokenBudget(MaxTokens) /\ Arrive("r1", "POST /api/auth/login", NoHeader)
    \/ \E route \in TokenRoutes, h \in ClientHeaders : Arrive("r1", route, h)
    \/ AuthFetch("r1")
    \/ \E b \in TokenLoginBodies : LoginSelect("r1", b)
    \/ LoginUpdate("r1")
    \/ ReadHandler("r1")
    \/ Close("r1")
    \/ Tick(1)

SpecToken == InitToken /\ [][NextToken]_vars

(***************************************************************************)
(* SpecSession: a session over its lifetime.  The second user logs in,     *)
(* changes password and profile and logs in again, the administrator       *)
(* changes that user's role, and time passes in steps of three days.       *)
(***************************************************************************)
SessionRoutes == {"GET /api/auth/me", "GET /api/teacher/classes"}

SelfServiceRoutes == {"PUT /api/auth/profile", "PUT /api/auth/change-password"}

SessionLoginBodies ==
    {[email |-> "admin@school.com", password |-> PwAdmin],
     [email |-> "u2@school.com", password |-> PwAdmin],
     [email |-> "u2@school.com", password |-> PwNew]}

ChangePasswordBodies ==
    {[current_password |-> PwAdmin, new_password |-> PwNew],
     [current_password |-> PwAdmin, new_password |-> PwShort],
     [new_password |-> PwNew]}

TokensOf(id) == {t \in IssuedTokens : t.payload.userId = id}

InitSession ==
    /\ users = {AdminRow, SecondRow("teacher")}
    /\ EmptySchool
    /\ now = 0
    /\ issued = {}
    /\ req = [r \in Slots |-> Idle]

NextSession ==
    \/ TokenBudget(MaxSessions) /\ Arrive("r1", "POST /api/auth/login", NoHeader)
    \/ \E route \in SessionRoutes, t \in IssuedTokens :
            Arrive("r1", route, Bearer(t))
    \/ \E route \in SelfServiceRoutes, t \in TokensOf("u2") :
            Arrive("r1", route, Bearer(t))
    \/ \E t \in IssuedTokens : Arrive("r1", "PUT /api/admin/users/:id", Bearer(t))
    \/ AuthFetch("r1")
    \/ \E b \in SessionLoginBodies : LoginSelect("r1", b)
    \/ LoginUpdate("r1")
    \/ UpdateProfile("r1", [first_name |-> "Bob"])
    \/ \E b \in ChangePasswordBodies : ChangePasswordSelect("r1", b)
    \/ ChangePasswordUpdate("r1")
    \/ \E role \in {"teacher", "student"} : UpdateUser("r1", "u2", [role |-> role])
    \/ ReadHandler("r1")
    \/ Close("r1")
    \/ Tick(3)

SpecSession == InitSession /\ [][NextSession]_vars

(***************************************************************************)
(* SpecAssign: the administrator assigns teachers to subjects in classes   *)
(* from two concurrent requests while the second user's role changes.      *)
(* The administrator is logged in; the second user is a teacher or a       *)
(* student, active or deactivated.                                         *)
(***************************************************************************)
MaxAssignments == 2

AdminLogin ==
    [token |-> generateToken(AdminRow, 0), user |-> WithoutPassword(AdminRow)]

AssignsInFlight ==
    {r \in Slots : req[r].route = "POST /api/admin/assign-teacher-subject"
                    /\ req[r].pc \notin {"idle", "done"}}
AssignBudget == (nextId - 1) + Cardinality(AssignsInFlight) < MaxAssignments

AssignmentIds == 1..MaxAssignments

InitAssign ==
    /\ NoCoursework
    /\ \E role \in {"teacher", "student"}, active \in BOOLEAN :
            users = {AdminRow, [SecondRow(role) EXCEPT !.is_active = active]}
    /\ subjects = {[id |-> "s1", code |-> "MATH"]}
    /\ classes = {[id |-> "c1", name |-> "Form 1A"]}
    /\ class_subjects = {}
    /\ NoFamilies /\ NoAcademicStructure
    /\ nextId = 1
    /\ now = 0
    /\ issued = {AdminLogin}
    /\ req = [r \in Slots |-> Idle]

NextAssign ==
    \/ \E r \in Slots :
            /\ AssignBudget
            /\ Arrive(r, "POST /api/admin/assign-teacher-subject",
                      Bearer(AdminLogin.token))
    \/ Arrive("r2", "DELETE /api/admin/class-subjects/:id", Bearer(AdminLogin.token))
    \/ Arrive("r2", "PUT /api/admin/users/:id", Bearer(AdminLogin.token))
    \/ \E r \in Slots : AuthFetch(r)
    \/ \E r \in Slots, b \in AssignBodies : AssignSelectTeacher(r, b)
    \/ \E r \in Slots : AssignSelectSubject(r)
    \/ \E r \in Slots : AssignSelectClass(r)
    \/ \E r \in Slots : AssignSelectExisting(r)
    \/ \E r \in Slots : AssignInsert(r)
    \/ \E id \in AssignmentIds : RemoveTeacherAssignment("r2", id)
    \/ \E role \in {"teacher", "student"} : UpdateUser("r2", "u2", [role |-> role])
    \/ \E r \in Slots : Close(r)

SpecAssign == InitAssign /\ [][NextAssign]_vars

(***************************************************************************)
(* SpecAssignSeq: the administrator's calls one after the other: assign,   *)
(* list the subjects of a class, remove an assignment, assign again.       *)
(***************************************************************************)
InitAssignSeq ==
    /\ NoCoursework
    /\ users = {AdminRow, SecondRow("teacher")}
    /\ subjects = {[id |-> "s1", code |-> "MATH"]}
    /\ classes = {[id |-> "c1", name |-> "Form 1A"]}
    /\ class_subjects = {}
    /\ NoFamilies /\ NoAcademicStructure
    /\ nextId = 1
    /\ now = 0
    /\ issued = {AdminLogin}
    /\ req = [r \in Slots |-> Idle]

AssignSeqRoutes ==
    {"DELETE /api/admin/class-subjects/:id",
     "GET /api/admin/classes/:classId/subjects", "PUT /api/admin/users/:id"}

NextAssignSeq ==
    \/ /\ AssignBudget
       /\ Arrive("r1", "POST /api/admin/assign-teacher-subject",
                 Bearer(AdminLogin.token))
    \/ \E route \in AssignSeqRoutes : Arrive("r1", route, Bearer(AdminLogin.token))
    \/ AuthFetch("r1")
    \/ \E b \in AssignBodies : AssignSelectTeacher("r1", b)
    \/ AssignSelectSubject("r1")
    \/ AssignSelectClass("r1")
    \/ AssignSelectExisting("r1")
    \/ AssignInsert("r1")
    \/ \E id \in AssignmentIds : RemoveTeacherAssignment("r1", id)
    \/ \E c \in ClassIds : GetClassSubjects("r1", c)
    \/ \E role \in {"teacher", "student"} : UpdateUser("r1", "u2", [role |-> role])
    \/ Close("r1")

SpecAssignSeq == InitAssignSeq /\ [][NextAssignSeq]_vars

(***************************************************************************)
(* SpecLink: the administrator links a parent to students and unlinks them *)
(* from two concurrent requests.  The school has one parent and two        *)
(* students.                                                               *)
(***************************************************************************)
MaxLinks == 4

LinkRoute == "POST /api/admin/parents/link-students"
UnlinkRoute == "POST /api/admin/parents/unlink-student"

StudentUser(id, email) ==
    [SecondRow("student") EXCEPT !.id = id, !.email = email]

LinksInFlight ==
    {r \in Slots : req[r].route = LinkRoute /\ req[r].pc \notin {"idle", "done"}}

\* Each request in flight may still store two rows.
LinkBudget == (nextId - 1) + 2 * (Cardinality(LinksInFlight) + 1) <= MaxLinks

InitLink ==
    /\ NoCoursework
    /\ users = {AdminRow, SecondRow("parent"),
                StudentUser("u3", "u3@school.com"),
                StudentUser("u4", "u4@school.com")}
    /\ parents = {[id |-> "p1", user_id |-> "u2"]}
    /\ students = {[id |-> "st1", user_id |-> "u3"],
                   [id |-> "st2", user_id |-> "u4"]}
    /\ student_parents = {}
    /\ subjects = {} /\ classes = {} /\ class_subjects = {}
    /\ NoAcademicStructure
    /\ nextId = 1
    /\ now = 0
    /\ issued = {AdminLogin}
    /\ req = [r \in Slots |-> Idle]

NextLink ==
    \/ \E r \in Slots :
            LinkBudget /\ Arrive(r, LinkRoute, Bearer(AdminLogin.token))
    \/ \E r \in Slots : Arrive(r, UnlinkRoute, Bearer(AdminLogin.token))
    \/ \E r \in Slots : AuthFetch(r)
    \/ \E r \in Slots, b \in LinkBodies : LinkSelectParent(r, b)
    \/ \E r \in Slots : LinkInsert(r)
    \/ \E r \in Slots, b \in UnlinkBodies : UnlinkParentFromStudent(r, b)
    \/ \E r \in Slots : Close(r)

SpecLink == InitLink /\ [][NextLink]_vars

(***************************************************************************)
(* SpecLevel: the administrator assigns subjects to an academic level and  *)
(* removes them, from two concurrent requests.                             *)
(***************************************************************************)
MaxLevelSubjects == 2

LevelRoute == "POST /api/admin/academic-levels/assign-subject"
LevelRemoveRoute == "DELETE /api/admin/academic-levels/subjects/:id"

LevelAssignsInFlight ==
    {r \in Slots : req[r].route = LevelRoute /\ req[r].pc \notin {"idle", "done"}}

LevelBudget ==
    (nextId - 1) + Cardinality(LevelAssignsInFlight) < MaxLevelSubjects

InitLevel ==
    /\ NoCoursework
    /\ users = {AdminRow}
    /\ subjects = {[id |-> "s1", code |-> "MATH"]}
    /\ academic_levels = {[id |-> "l1", name |-> "Form 1"]}
    /\ subject_academic_levels = {}
    /\ departments = {}
    /\ classes = {} /\ class_subjects = {}
    /\ NoFamilies
    /\ nextId = 1
    /\ now = 0
    /\ issued = {AdminLogin}
    /\ req = [r \in Slots |-> Idle]

NextLevel ==
    \/ \E r \in Slots :
            LevelBudget /\ Arrive(r, LevelRoute, Bearer(AdminLogin.token))
    \/ Arrive("r2", LevelRemoveRoute, Bearer(AdminLogin.token))
    \/ \E r \in Slots : AuthFetch(r)
    \/ \E r \in Slots, b \in LevelBodies : AssignSubjectToAcademicLevel(r, b)
    \/ \E id \in 1..MaxLevelSubjects : RemoveSubjectFromAcademicLevel("r2", id)
    \/ \E r \in Slots : Close(r)

SpecLevel == InitLevel /\ [][NextLevel]_vars

(***************************************************************************)
(* SpecHod: two heads of department create and update subjects from two    *)
(* concurrent requests.  The first heads department d1; the second has the *)
(* role and no department; department d2 has no head.                      *)
(***************************************************************************)
MaxSubjectId == 4

CreateSubjectRoute == "POST /api/hod/subjects"
UpdateSubjectRoute == "PUT /api/hod/subjects/:id"

HodUser(id, email) == [SecondRow("hod") EXCEPT !.id = id, !.email = email]

LoginOf(row) == [token |-> generateToken(row, 0), user |-> WithoutPassword(row)]

HodLogins ==
    {LoginOf(SecondRow("hod")), LoginOf(HodUser("u3", "u3@school.com"))}

CreatesInFlight ==
    {r \in Slots : req[r].route = CreateSubjectRoute
                    /\ req[r].pc \notin {"idle", "done"}}

CreateBudget == nextId + Cardinality(CreatesInFlight) <= MaxSubjectId

InitHod ==
    /\ NoCoursework
    /\ users = {AdminRow, SecondRow("hod"), HodUser("u3", "u3@school.com")}
    /\ departments = {[id |-> "d1", name |-> "Mathematics", hod_id |-> "u2"],
                      [id |-> "d2", name |-> "Science", hod_id |-> Null]}
    /\ subjects = {[id |-> uuid(1), name |-> "Maths", code |-> "MATH",
                    description |-> Null, department_id |-> "d1"],
                   [id |-> uuid(2), name |-> "Physics", code |-> "PHY",
                    description |-> Null, department_id |-> "d2"]}
    /\ academic_levels = {} /\ subject_academic_levels = {}
    /\ classes = {} /\ class_subjects = {}
    /\ NoFamilies
    /\ nextId = 3
    /\ now = 0
    /\ issued = HodLogins
    /\ req = [r \in Slots |-> Idle]

NextHod ==
    \/ \E r \in Slots, l \in HodLogins :
            CreateBudget /\ Arrive(r, CreateSubjectRoute, Bearer(l.token))
    \/ \E r \in Slots, l \in HodLogins :
            Arrive(r, UpdateSubjectRoute, Bearer(l.token))
    \/ \E r \in Slots : AuthFetch(r)
    \/ \E r \in Slots, b \in CreateSubjectBodies : CreateSubjectSelectDepartment(r, b)
    \/ \E r \in Slots : CreateSubjectInsert(r)
    \/ \E r \in Slots, id \in {uuid(1), uuid(2)}, b \in UpdateSubjectBodies :
            UpdateSubjectSelectDepartment(r, id, b)
    \/ \E r \in Slots : UpdateSubjectUpdate(r)
    \/ \E r \in Slots : Close(r)

SpecHod == InitHod /\ [][NextHod]_vars

(***************************************************************************)
(* SpecRegister: the administrator registers users, creates users and      *)
(* updates users from two concurrent requests.  The school starts with the *)
(* administrator and one head of department, and has no department.        *)
(***************************************************************************)
MaxUserId == 4

RegisterUserRoute == "POST /api/auth/register"
CreateUserRoute == "POST /api/admin/users"
UpdateUserRoute == "PUT /api/admin/users/:id"

NewPerson ==
    [password : {PwNew}, first_name : {"Ann"}, last_name : {"Lee"},
     email : {"New@School.com", "new@school.com"}]

WithField(b, f, v) ==
    [g \in DOMAIN b \cup {f} |-> IF g = f THEN v ELSE b[g]]

RegisterBodies ==
    {WithField(b, "role", role) :
        b \in NewPerson, role \in ProfileRoles \cup {"hod"}}
      \cup {WithField(WithField(b, "role", "teacher"), "department_id", "d9") :
                b \in {x \in NewPerson : x.email = "new@school.com"}}
      \cup {WithField(WithField(b, "role", "parent"), "email", "U2@School.com") :
                b \in {x \in NewPerson : x.email = "new@school.com"}}

CreateUserBodies ==
    {WithField(b, "role", role) :
        b \in NewPerson, role \in {"teacher", "hod", "principal"}}
      \cup {[email |-> "new@school.com", role |-> "teacher"]}

RoleUpdateBodies ==
    {[role |-> "student"], [role |-> "teacher"], [email |-> "New@School.com"]}

CreationsInFlight ==
    {r \in Slots : req[r].route \in {RegisterUserRoute, CreateUserRoute}
                    /\ req[r].pc \notin {"idle", "done"}}

\* Each creation in flight may still take two primary keys.
UserBudget ==
    (nextId - 1) + 2 * (Cardinality(CreationsInFlight) + 1) <= MaxUserId

InitRegister ==
    /\ users = {AdminRow, SecondRow("hod")}
    /\ EmptySchool
    /\ now = 0
    /\ issued = {AdminLogin}
    /\ req = [r \in Slots |-> Idle]

NextRegister ==
    \/ \E r \in Slots :
            UserBudget /\ Arrive(r, RegisterUserRoute, Bearer(AdminLogin.token))
    \/ \E r \in Slots :
            UserBudget /\ Arrive(r, CreateUserRoute, Bearer(AdminLogin.token))
    \/ \E r \in Slots : Arrive(r, UpdateUserRoute, Bearer(AdminLogin.token))
    \/ \E r \in Slots : AuthFetch(r)
    \/ \E r \in Slots, b \in RegisterBodies : RegisterSelect(r, b)
    \/ \E r \in Slots : RegisterInsertUser(r)
    \/ \E r \in Slots, fault \in BOOLEAN : RegisterInsertProfile(r, fault)
    \/ \E r \in Slots, fault \in BOOLEAN : RegisterRollback(r, fault)
    \/ \E r \in Slots, b \in CreateUserBodies : CreateUserSelect(r, b)
    \/ \E r \in Slots : CreateUserInsert(r)
    \/ \E r \in Slots, id \in {"u2", userUuid(1)}, b \in RoleUpdateBodies :
            UpdateUser(r, id, b)
    \/ \E r \in Slots : Close(r)

SpecRegister == InitRegister /\ [][NextRegister]_vars

(***************************************************************************)
(* SpecSelf: every request is issued by the administrator u1, who updates, *)
(* deletes, activates and deactivates users, the own account included.     *)
(***************************************************************************)
SelfRoutes ==
    {"PUT /api/admin/users/:id", "DELETE /api/admin/users/:id",
     "PUT /api/admin/users/:id/activate",
     "PUT /api/admin/users/:id/deactivate"}

SelfUpdateBodies ==
    {[is_active |-> FALSE], [is_active |-> TRUE], [role |-> "teacher"],
     [first_name |-> "Bob"], [email |-> "U2@School.com"]}

InitSelf ==
    /\ users = {AdminRow, SecondRow("teacher")}
    /\ EmptySchool
    /\ now = 0
    /\ issued = {AdminLogin}
    /\ req = [r \in Slots |-> Idle]

NextSelf ==
    \/ \E r \in Slots, route \in SelfRoutes :
            Arrive(r, route, Bearer(AdminLogin.token))
    \/ \E r \in Slots : AuthFetch(r)
    \/ \E r \in Slots, id \in UserIds, b \in SelfUpdateBodies :
            UpdateUser(r, id, b)
    \/ \E r \in Slots, id \in UserIds : DeleteUser(r, id)
    \/ \E r \in Slots, id \in UserIds : ActivateUser(r, id)
    \/ \E r \in Slots, id \in UserIds : DeactivateUser(r, id)
    \/ \E r \in Slots : Close(r)

SpecSelf == InitSelf /\ [][NextSelf]_vars

(***************************************************************************)
(* SpecParent: a parent reads about two students while the administrator   *)
(* links and unlinks them.  The parent is linked to the first student at   *)
(* the start; a second user has the role parent and no parent profile.     *)
(***************************************************************************)
ChildRoutes ==
    {"GET /api/parent/children/:studentId/performance",
     "GET /api/parent/children/:studentId/assignments",
     "GET /api/parent/children/:studentId/attendance"}

ParentUser(id, email) == [SecondRow("parent") EXCEPT !.id = id, !.email = email]

ParentLogins ==
    {LoginOf(SecondRow("parent")), LoginOf(ParentUser("u5", "u5@school.com"))}

FirstLink == [id |-> 1, parent_id |-> "p1", student_id |-> "st1"]

InitParent ==
    /\ users = {AdminRow, SecondRow("parent"),
                ParentUser("u5", "u5@school.com"),
                StudentUser("u3", "u3@school.com"),
                StudentUser("u4", "u4@school.com")}
    /\ parents = {[id |-> "p1", user_id |-> "u2"]}
    /\ students = {[id |-> "st1", user_id |-> "u3"],
                   [id |-> "st2", user_id |-> "u4"]}
    /\ student_parents = {FirstLink}
    /\ subjects = {} /\ classes = {} /\ class_subjects = {}
    /\ NoAcademicStructure
    /\ teachers = {} /\ assignments = {} /\ learning_materials = {}
    /\ assignment_submissions =
            {Submission("b1", "a1", "st1", "submitted", Null),
             Submission("b2", "a1", "st2", "submitted", Null)}
    /\ nextId = 2
    /\ now = 0
    /\ issued = {AdminLogin} \cup ParentLogins
    /\ req = [r \in Slots |-> Idle]

NextParent ==
    \/ \E r \in Slots, route \in ChildRoutes, l \in ParentLogins :
            Arrive(r, route, Bearer(l.token))
    \/ \E r \in Slots :
            LinkBudget /\ Arrive(r, LinkRoute, Bearer(AdminLogin.token))
    \/ \E r \in Slots : Arrive(r, UnlinkRoute, Bearer(AdminLogin.token))
    \/ \E r \in Slots : AuthFetch(r)
    \/ \E r \in Slots, id \in {"st1", "st2"} : ChildSelectParent(r, id)
    \/ \E r \in Slots : ChildSelectRelationship(r)
    \/ \E r \in Slots : ChildFetch(r)
    \/ \E r \in Slots :
            LinkSelectParent(r, [parent_id |-> "p1",
                                 student_ids |-> JsonArray(<<"st1">>)])
    \/ \E r \in Slots : LinkInsert(r)
    \/ \E r \in Slots :
            UnlinkParentFromStudent(r, [parent_id |-> "p1", student_id |-> "st1"])
    \/ \E r \in Slots : Close(r)

SpecParent == InitParent /\ [][NextParent]_vars

(***************************************************************************)
(* SpecSubmit: a student submits to an assignment, before and after its    *)
(* due date, while its teacher grades the submission.                      *)
(***************************************************************************)
SubmitRoute == "POST /api/student/assignments/:assignmentId/submit"
GradeRoute == "PUT /api/teacher/submissions/:id/grade"

TeacherUser(id, email) == [SecondRow("teacher") EXCEPT !.id = id, !.email = email]

TeacherLogins ==
    {LoginOf(SecondRow("teacher")), LoginOf(TeacherUser("u6", "u6@school.com"))}

StudentLogin == LoginOf(StudentUser("u3", "u3@school.com"))

AssignmentRow(id, teacher) ==
    [id |-> id, teacher_id |-> teacher, title |-> "Essay", due_date |-> 2]

InitSubmit ==
    /\ users = {AdminRow, SecondRow("teacher"),
                StudentUser("u3", "u3@school.com")}
    /\ students = {[id |-> "st1", user_id |-> "u3"]}
    /\ parents = {} /\ student_parents = {}
    /\ subjects = {} /\ classes = {} /\ class_subjects = {}
    /\ NoAcademicStructure
    /\ teachers = {} /\ learning_materials = {}
    /\ assignments = {AssignmentRow("a1", "u2")}
    /\ assignment_submissions = {}
    /\ nextId = 1
    /\ now = 0
    /\ issued = {LoginOf(SecondRow("teacher")), StudentLogin}
    /\ req = [r \in Slots |-> Idle]

NextSubmit ==
    \/ \E r \in Slots : Arrive(r, SubmitRoute, Bearer(StudentLogin.token))
    \/ \E r \in Slots :
            Arrive(r, GradeRoute, Bearer(LoginOf(SecondRow("teacher")).token))
    \/ \E r \in Slots : AuthFetch(r)
    \/ \E r \in Slots, id \in {"a1", "a9"} :
            SubmitSelectStudent(r, id, [submission_text |-> "essay"])
    \/ \E r \in Slots : SubmitSelectAssignment(r)
    \/ \E r \in Slots : SubmitUpsert(r)
    \/ \E r \in Slots,
          b \in {[marks_obtained |-> "7"], [feedback |-> "good"]} :
            GradeSubmission(r, submissionUuid(1), b)
    \/ Tick(3)
    \/ \E r \in Slots : Close(r)

SpecSubmit == InitSubmit /\ [][NextSubmit]_vars

(***************************************************************************)
(* SpecTeach: two teachers, each with one assignment that has one          *)
(* submission, update and delete assignments and grade submissions.        *)
(***************************************************************************)
TeacherRoutes ==
    {"PUT /api/teacher/assignments/:id", "DELETE /api/teacher/assignments/:id",
     GradeRoute}

InitTeach ==
    /\ users = {AdminRow, SecondRow("teacher"),
                TeacherUser("u6", "u6@school.com"),
                StudentUser("u3", "u3@school.com")}
    /\ students = {[id |-> "st1", user_id |-> "u3"]}
    /\ parents = {} /\ student_parents = {}
    /\ subjects = {} /\ classes = {} /\ class_subjects = {}
    /\ NoAcademicStructure
    /\ teachers = {} /\ learning_materials = {}
    /\ assignments = {AssignmentRow("a1", "u2"), AssignmentRow("a2", "u6")}
    /\ assignment_submissions =
            {Submission("b1", "a1", "st1", "submitted", Null),
             Submission("b2", "a2", "st1", "submitted", Null)}
    /\ nextId = 1
    /\ now = 0
    /\ issued = TeacherLogins
    /\ req = [r \in Slots |-> Idle]

NextTeach ==
    \/ \E r \in Slots, route \in TeacherRoutes, l \in TeacherLogins :
            Arrive(r, route, Bearer(l.token))
    \/ \E r \in Slots : AuthFetch(r)
    \/ \E r \in Slots, id \in {"a1", "a2"},
          b \in {[title |-> "Report"], [teacher_id |-> "u2"]} :
            UpdateAssignment(r, id, b)
    \/ \E r \in Slots, id \in {"a1", "a2"}, onDelete \in {"cascade", "restrict"} :
            DeleteAssignment(r, id, onDelete)
    \/ \E r \in Slots, id \in {"b1", "b2"} :
            GradeSubmission(r, id, [marks_obtained |-> "7"])
    \/ \E r \in Slots : Close(r)

SpecTeach == InitTeach /\ [][NextTeach]_vars

(***************************************************************************)
(* SpecMaterial: two heads of department list and approve learning         *)
(* materials.  The first heads department d1; the second has the role and  *)
(* no department; each department has one subject with one material.       *)
(***************************************************************************)
MaterialRoutes ==
    {"GET /api/hod/department/materials", "PUT /api/hod/materials/:id/approve"}

Material(id, subject) ==
    [id |-> id, subject_id |-> subject, title |-> "Notes",
     is_approved |-> FALSE, approved_by |-> Null]

InitMaterial ==
    /\ users = {AdminRow, SecondRow("hod"), HodUser("u3", "u3@school.com")}
    /\ departments = {[id |-> "d1", name |-> "Mathematics", hod_id |-> "u2"],
                      [id |-> "d2", name |-> "Science", hod_id |-> Null]}
    /\ subjects = {[id |-> uuid(1), name |-> "Maths", code |-> "MATH",
                    description |-> Null, department_id |-> "d1"],
                   [id |-> uuid(2), name |-> "Physics", code |-> "PHY",
                    description |-> Null, department_id |-> "d2"]}
    /\ learning_materials = {Material("m1", uuid(1)), Material("m2", uuid(2))}
    /\ teachers = {} /\ assignments = {} /\ assignment_submissions = {}
    /\ academic_levels = {} /\ subject_academic_levels = {}
    /\ classes = {} /\ class_subjects = {}
    /\ NoFamilies
    /\ nextId = 3
    /\ now = 0
    /\ issued = HodLogins
    /\ req = [r \in Slots |-> Idle]

NextMaterial ==
    \/ \E r \in Slots, route \in MaterialRoutes, l \in HodLogins :
            Arrive(r, route, Bearer(l.token))
    \/ \E r \in Slots : AuthFetch(r)
    \/ \E r \in Slots : GetDepartmentMaterialsSelect(r)
    \/ \E r \in Slots : GetDepartmentMaterialsFetch(r)
    \/ \E r \in Slots, id \in {"m1", "m2", "m9"} : ApproveMaterial(r, id)
    \/ \E r \in Slots : Close(r)

SpecMaterial == InitMaterial /\ [][NextMaterial]_vars

(***************************************************************************)
(* Vocabulary of the properties.                                           *)
(***************************************************************************)
MiddlewareNames == {"authenticateToken", "authorizeRoles"}

HandlerRan(s) == \E i \in 1..Len(s.stages) : s.stages[i] \notin MiddlewareNames
StageRan(s, name) == \E i \in 1..Len(s.stages) : s.stages[i] = name

Busy == {r \in Slots : req[r].pc # "idle"}

\* The routes that need no session, and the role each route group admits.
PublicRoutes == {"POST /api/auth/login", "GET /", "GET /api/health"}

DeclaredAllow(route) ==
    CASE route \in {"POST /api/auth/register", "PUT /api/admin/users/:id",
                    "DELETE /api/admin/users/:id",
                    "PUT /api/admin/users/:id/activate",
                    "PUT /api/admin/users/:id/deactivate",
                    "POST /api/admin/assign-teacher-subject",
                    "DELETE /api/admin/class-subjects/:id"} -> {"admin"}
      [] route = "GET /api/headmaster/dashboard" -> {"headmaster"}
      [] route = "GET /api/hod/department" -> {"hod"}
      [] route = "GET /api/teacher/classes" -> {"teacher"}
      [] route = "GET /api/parent/children" -> {"parent"}
      [] route = "GET /api/student/dashboard" -> {"student"}
      [] OTHER -> Roles

GatedRoutes == {route \in GateRoutes \cup AuthRoutes : DeclaredAllow(route) # Roles}

AccountDisabled ==
    [error |-> "Account is not active. Please contact administrator."]
UnknownIdentity == [error |-> "Invalid token"]
InvalidCredential == [error |-> "Invalid or expired token"]
MissingCredential == [error |-> "Access token required"]

\* The resolver of r has its answer from the store in this step.
Resolving(r) == req[r].pc = "authenticateToken" /\ req'[r] # req[r]

RowOf(id) == {u \in users : u.id = id}

Genuine(s) ==
    /\ s.decoded # Undefined
    /\ \E t \in IssuedTokens : t.payload = s.decoded

(***************************************************************************)
(* C1.  Once is_active of an identity is false in the store, a request     *)
(* that presents a token of that identity, a token that still verifies,    *)
(* is answered 403 "account is not active" when its resolver reads the     *)
(* store, no identity is attached and no handler runs.                     *)
(***************************************************************************)
C1_DeactivatedIsRejected ==
    [][\A r \in Slots :
        (Resolving(r) /\ \E u \in RowOf(req[r].decoded.userId) : ~u.is_active)
            => /\ req'[r].pc = "done"
               /\ req'[r].status = 403
               /\ req'[r].body = AccountDisabled
               /\ req'[r].user = Undefined
               /\ ~HandlerRan(req'[r])]_vars

\* A genuine, unexpired token was answered "account is not active": its
\* identity was active at login, so it was deactivated since.
C1_Witness ==
    \E r \in Slots :
        /\ req[r].pc = "done" /\ req[r].status = 403
        /\ req[r].body = AccountDisabled
        /\ Genuine(req[r]) /\ req[r].at < req[r].decoded.exp
        /\ req[r].decoded.userId = "u2"

(***************************************************************************)
(* C2.  The identity attached to an accepted request is the row the        *)
(* resolver fetched in that request, and the role gate decides on the role *)
(* of that row: the handler of a gated route starts exactly when the       *)
(* stored role is in the route's allow-list, whatever role the token       *)
(* carries.                                                                *)
(***************************************************************************)
C2_GateUsesStoredRole ==
    [][\A r \in Slots :
        Resolving(r) =>
            \A u \in RowOf(req[r].decoded.userId) :
                u.is_active =>
                    /\ req'[r].user = u
                    /\ HandlerRan(req'[r])
                          <=> u.role \in DeclaredAllow(req[r].route)]_vars

\* A token issued to a teacher, presented after the change to student: it
\* is denied on the teacher group and served on the student group.
C2_Witness ==
    \E r1, r2 \in Slots :
        /\ req[r1].pc = "done" /\ req[r2].pc = "done"
        /\ Genuine(req[r1]) /\ Genuine(req[r2])
        /\ req[r1].decoded.role = "teacher" /\ req[r2].decoded.role = "teacher"
        /\ req[r1].route = "GET /api/teacher/classes"
        /\ req[r1].status = 403 /\ ~HandlerRan(req[r1])
        /\ req[r2].route = "GET /api/student/dashboard"
        /\ req[r2].status = 200 /\ HandlerRan(req[r2])

(***************************************************************************)
(* C3.  On a gated route, a request that reached the role gate runs its    *)
(* handler if and only if the role of its resolved identity is in the      *)
(* allow-list declared for the route group; any other role is answered 403 *)
(* with the required and the current role, and the handler does not run.   *)
(***************************************************************************)
C3_GateAllowsExactlyTheList ==
    \A r \in Busy :
        (req[r].route \in GatedRoutes /\ StageRan(req[r], "authorizeRoles")) =>
            /\ req[r].user # Undefined
            /\ HandlerRan(req[r]) <=> req[r].user.role \in DeclaredAllow(req[r].route)
            /\ req[r].user.role \notin DeclaredAllow(req[r].route) =>
                  /\ req[r].pc = "done" /\ req[r].status = 403
                  /\ req[r].body =
                        [error |-> "Access denied. Insufficient permissions.",
                         required |-> DeclaredAllow(req[r].route),
                         current |-> req[r].user.role]

\* Even an administrator is denied on another group's routes.
C3_Witness ==
    \E r \in Slots :
        /\ req[r].pc = "done" /\ req[r].route = "GET /api/teacher/classes"
        /\ req[r].user # Undefined /\ req[r].user.role = "admin"
        /\ req[r].status = 403 /\ ~HandlerRan(req[r])

(***************************************************************************)
(* C4.  A handler of a route other than login, GET / and GET /api/health   *)
(* runs only after the session resolver accepted the request, a handler of *)
(* a role route group only after the role gate passed it as well, and the  *)
(* role gate runs only after the resolver.                                 *)
(***************************************************************************)
C4_ChainOrder ==
    \A r \in Busy :
        LET s == req[r]
        IN /\ (s.route \notin PublicRoutes /\ HandlerRan(s)) =>
                 /\ s.stages[1] = "authenticateToken"
                 /\ s.decoded # Undefined /\ s.user # Undefined
                 /\ s.user.is_active
           /\ (s.route \in GatedRoutes /\ HandlerRan(s)) =>
                 /\ Len(s.stages) = 3 /\ s.stages[2] = "authorizeRoles"
                 /\ s.user.role \in DeclaredAllow(s.route)
           /\ \A i \in 1..Len(s.stages) :
                 s.stages[i] = "authorizeRoles" =>
                    \E j \in 1..(i - 1) : s.stages[j] = "authenticateToken"
           /\ \A i \in 1..Len(s.stages) :
                 s.stages[i] \notin MiddlewareNames => i = Len(s.stages)

C4_Witness ==
    \E r \in Slots :
        /\ req[r].route \in GatedRoutes
        /\ Len(req[r].stages) = 3 /\ HandlerRan(req[r])
        /\ req[r].pc = "done" /\ req[r].status = 200

(***************************************************************************)
(* C9.  A token that verifies but whose subject id has no row in the store *)
(* is answered 401 "Invalid token", an answer that differs from the one    *)
(* for an invalid token and from the one for a disabled account; no        *)
(* handler runs.  The row is looked for before is_active is read.          *)
(***************************************************************************)
C9_UnknownIdentity ==
    [][\A r \in Slots :
        (Resolving(r) /\ RowOf(req[r].decoded.userId) = {})
            => /\ req'[r].pc = "done"
               /\ req'[r].status = 401
               /\ req'[r].body = UnknownIdentity
               /\ req'[r].body \notin {InvalidCredential, AccountDisabled}
               /\ req'[r].user = Undefined
               /\ ~HandlerRan(req'[r])]_vars

\* The second user was deleted after the login that issued the token.
C9_Witness ==
    \E r \in Slots :
        /\ req[r].pc = "done" /\ req[r].status = 401
        /\ req[r].body = UnknownIdentity
        /\ Genuine(req[r]) /\ req[r].decoded.userId = "u2"
        /\ RowOf("u2") = {}

(***************************************************************************)
(* C5.  A token verified at the moment generateToken made it yields the    *)
(* userId, email and role of the identity it was made for; after           *)
(* issued_at + 7 days it is Invalid, before issued_at + 7 days it is not,  *)
(* and requests that present it are turned away for it accordingly.        *)
(***************************************************************************)
C5_VerifyAfterIssue ==
    /\ \A x \in issued :
          LET t == x.token
              p == jwtVerify(t, JWT_SECRET, t.payload.iat)
          IN /\ p # Invalid
             /\ p.userId = x.user.id /\ p.email = x.user.email
             /\ p.role = x.user.role
             /\ now > t.payload.iat + 7 => jwtVerify(t, JWT_SECRET, now) = Invalid
             /\ now < t.payload.iat + 7 => jwtVerify(t, JWT_SECRET, now) = t.payload
    /\ \A r \in Busy : \A t \in IssuedTokens :
          (req[r].auth = Bearer(t) /\ req[r].at >= 0) =>
             /\ req[r].at > t.payload.iat + 7 =>
                   /\ req[r].pc = "done" /\ req[r].status = 403
                   /\ req[r].body = InvalidCredential
             /\ req[r].at < t.payload.iat + 7 =>
                   /\ req[r].body # InvalidCredential
                   /\ req[r].decoded = t.payload

\* A request presented a genuine token more than seven days after its issue.
C5_Witness ==
    \E r \in Slots : \E t \in IssuedTokens :
        /\ req[r].auth = Bearer(t) /\ req[r].at > t.payload.iat + 7
        /\ req[r].pc = "done" /\ req[r].body = InvalidCredential

(***************************************************************************)
(* C6.  A request that presents an issued token before issued_at + 7 days  *)
(* passes verification, and its resolver accepts it whenever the store     *)
(* holds an active row for the token's subject: the row is attached and    *)
(* the chain goes on, whatever password, profile, role or later logins     *)
(* the identity has had since.                                             *)
(***************************************************************************)
C6_TokenLivesUntilExpiry ==
    /\ [](\A r \in Busy : \A t \in IssuedTokens :
            (req[r].auth = Bearer(t) /\ req[r].at >= 0
                /\ req[r].at < t.payload.iat + 7) =>
                    /\ req[r].decoded = t.payload
                    /\ req[r].body # InvalidCredential)
    /\ [][\A r \in Slots :
            Resolving(r) =>
                \A u \in RowOf(req[r].decoded.userId) :
                    u.is_active =>
                        /\ req'[r].user = u
                        /\ Len(req'[r].stages) > 1]_vars

\* The oldest token of the second user is served after that user changed
\* password and first name, was given another role and logged in again.
C6_Witness ==
    \E r \in Slots : \E t \in TokensOf("u2") : \E u \in RowOf("u2") :
        /\ req[r].auth = Bearer(t) /\ req[r].pc = "done" /\ req[r].status = 200
        /\ req[r].user = u
        /\ u.password_hash = bcryptHash(PwNew) /\ u.first_name = "Bob"
        /\ u.role # t.payload.role
        /\ \E t2 \in TokensOf("u2") : t2.payload.iat > t.payload.iat

(***************************************************************************)
(* C7.  A request to a protected path without Authorization header, or     *)
(* with a header that has no second space-separated part, is answered 401  *)
(* with {success: false, error: "Access token required"}, without a store  *)
(* query and without running the handler.                                  *)
(***************************************************************************)
NoSecondPart(h) == ~h.present \/ Len(split(h.value)) < 2

C7_MissingCredential ==
    \A r \in Busy :
        (req[r].route \notin PublicRoutes /\ NoSecondPart(req[r].auth)) =>
            /\ req[r].pc = "done" /\ req[r].status = 401
            /\ req[r].body = [success |-> FALSE, error |-> "Access token required"]
            /\ req[r].q = 0
            /\ ~HandlerRan(req[r])

(***************************************************************************)
(* C8.  A request whose bearer token is malformed, has a signature that    *)
(* does not match or is expired is answered 403 with {success: false,      *)
(* error: "Invalid or expired token"}; the store is not queried, no        *)
(* identity is attached and the handler is not run.                        *)
(***************************************************************************)
HasToken(h) ==
    /\ h.present /\ Len(split(h.value)) >= 2 /\ split(h.value)[2] # <<>>

BadToken(h, t) ==
    LET tok == AsJwt(split(h.value)[2])
    IN \/ tok = Garbage
       \/ tok.sig # Sign(tok.payload, JWT_SECRET)
       \/ t >= tok.payload.exp

C8_InvalidCredential ==
    \A r \in Busy :
        (req[r].route \notin PublicRoutes /\ HasToken(req[r].auth)
            /\ BadToken(req[r].auth, req[r].at)) =>
            /\ req[r].pc = "done" /\ req[r].status = 403
            /\ req[r].body =
                  [success |-> FALSE, error |-> "Invalid or expired token"]
            /\ req[r].q = 0
            /\ req[r].user = Undefined
            /\ ~HandlerRan(req[r])

(***************************************************************************)
(* C10.  assignTeacherToSubject answers 404 and inserts no class_subjects  *)
(* row whenever teacher_id does not resolve to an active identity with     *)
(* role teacher (a deactivated teacher included), or subject_id or         *)
(* class_id does not resolve to an existing row.                           *)
(***************************************************************************)
AllIdsGiven(b) ==
    Has(b, "teacher_id") /\ Has(b, "subject_id") /\ Has(b, "class_id")

\* The request in slot r takes the step named by pc.
Steps(r, pc) == req[r].pc = pc /\ req'[r].pc # pc

LooksUpTeacher(r) ==
    Steps(r, "assignTeacherToSubject") /\ AllIdsGiven(req'[r].input)

NotFoundNoInsert(r) ==
    /\ req'[r].pc = "done" /\ req'[r].status = 404
    /\ class_subjects' = class_subjects

SubjectMissing(r) == ~\E x \in subjects : x.id = req[r].local.subject_id
ClassMissing(r) == ~\E c \in classes : c.id = req[r].local.class_id

C10_ActiveTeacherRequired ==
    [][\A r \in Slots :
        /\ (LooksUpTeacher(r)
              /\ ~\E u \in users : /\ u.id = req'[r].input.teacher_id
                                   /\ u.role = "teacher" /\ u.is_active)
                => NotFoundNoInsert(r)
        /\ (Steps(r, "assignTeacherToSubject:subject") /\ SubjectMissing(r))
                => NotFoundNoInsert(r)
        /\ (Steps(r, "assignTeacherToSubject:class") /\ ClassMissing(r))
                => NotFoundNoInsert(r)]_vars

\* C10, as the code has it: with the three ids given, the request is
\* answered 404 and inserts nothing when teacher_id does not resolve to an
\* identity with role teacher, or subject_id or class_id to an existing
\* row; is_active is not consulted, so a deactivated teacher passes the
\* lookup, and a row is only ever inserted by a request past its lookups.
\* A body that omits an id is answered 400.
C10_TeacherRoleRequired ==
    [][/\ \A r \in Slots :
            /\ (Steps(r, "assignTeacherToSubject") /\ ~AllIdsGiven(req'[r].input))
                    => /\ req'[r].pc = "done" /\ req'[r].status = 400
                       /\ class_subjects' = class_subjects
            /\ (LooksUpTeacher(r)
                  /\ ~\E u \in users : /\ u.id = req'[r].input.teacher_id
                                       /\ u.role = "teacher")
                    => /\ NotFoundNoInsert(r)
                       /\ req'[r].body.error =
                            "Teacher not found or user is not a teacher"
            /\ (LooksUpTeacher(r)
                  /\ \E u \in users : /\ u.id = req'[r].input.teacher_id
                                      /\ u.role = "teacher" /\ ~u.is_active)
                    => req'[r].pc = "assignTeacherToSubject:subject"
            /\ (Steps(r, "assignTeacherToSubject:subject") /\ SubjectMissing(r))
                    => NotFoundNoInsert(r)
            /\ (Steps(r, "assignTeacherToSubject:class") /\ ClassMissing(r))
                    => NotFoundNoInsert(r)
       /\ class_subjects' \subseteq class_subjects
            \/ \E r \in Slots : /\ req[r].pc = "assignTeacherToSubject:insert"
                                /\ req'[r].status = 201]_vars

\* A request naming the administrator as teacher was answered 404 while a
\* deactivated teacher holds an assignment.
C10_Witness ==
    /\ \E r \in Slots :
        /\ req[r].pc = "done" /\ req[r].status = 404
        /\ req[r].route = "POST /api/admin/assign-teacher-subject"
        /\ AllIdsGiven(req[r].input) /\ req[r].input.teacher_id = "u1"
    /\ \E x \in class_subjects :
        \E u \in users : u.id = x.teacher_id /\ ~u.is_active

(***************************************************************************)
(* C11.  For a (teacher, subject, class) triple whose endpoints exist, two *)
(* calls of assignTeacherToSubject one after the other answer 201 and then *)
(* 409: the call made while no junction row holds the triple answers 201   *)
(* and inserts the row, and the call made while the row exists answers 409 *)
(* and leaves class_subjects unchanged.                                    *)
(***************************************************************************)
AssignRoute == "POST /api/admin/assign-teacher-subject"

\* The request in slot r is answered in this step.
Answers(r, route) ==
    req[r].route = route /\ req[r].pc # "done" /\ req'[r].pc = "done"

EndpointsExist(b) ==
    /\ \E u \in users : u.id = b.teacher_id /\ u.role = "teacher"
    /\ \E x \in subjects : x.id = b.subject_id
    /\ \E c \in classes : c.id = b.class_id

RowsOfTriple(rows, b) ==
    {x \in rows : /\ x.class_id = b.class_id /\ x.subject_id = b.subject_id
                  /\ x.teacher_id = b.teacher_id}

C11_SuccessThenConflict ==
    [][(Answers("r1", AssignRoute) /\ AllIdsGiven(req'["r1"].input)
            /\ EndpointsExist(req'["r1"].input)) =>
        IF RowsOfTriple(class_subjects, req'["r1"].input) = {}
        THEN /\ req'["r1"].status = 201
             /\ Cardinality(RowsOfTriple(class_subjects', req'["r1"].input)) = 1
        ELSE /\ req'["r1"].status = 409
             /\ class_subjects' = class_subjects]_vars

\* The second call was answered 409 and the row of the first is in place.
C11_Witness ==
    /\ req["r1"].pc = "done" /\ req["r1"].route = AssignRoute
    /\ req["r1"].status = 409
    /\ Cardinality(RowsOfTriple(class_subjects, req["r1"].input)) = 1

C13_RejectedInsertIsConflict ==
    [][\A r \in Slots :
        (Steps(r, "assignTeacherToSubject:insert")
            /\ RowsOfTriple(class_subjects, req[r].local) # {}) =>
            /\ req'[r].status = 409
            /\ req'[r].body.error =
                "This teacher is already assigned to teach this subject in this class"]_vars

(***************************************************************************)
(* C18.  After assignTeacherToSubject(T, S, C) succeeded and               *)
(* removeTeacherAssignment of the created row succeeded, getClassSubjects  *)
(* of C returns no entry for that assignment and a further                 *)
(* assignTeacherToSubject(T, S, C) answers 201, not 409.  Step by step:    *)
(* a remove answered 200 leaves no row with the id; the entries            *)
(* getClassSubjects returns are exactly the rows class_subjects holds for  *)
(* the class, each with its subject and teacher; an assign for a triple    *)
(* without a row answers 201.                                              *)
(***************************************************************************)
RemoveRoute == "DELETE /api/admin/class-subjects/:id"
ClassSubjectsRoute == "GET /api/admin/classes/:classId/subjects"

C18_RemoveThenReassign ==
    [][/\ Answers("r1", RemoveRoute) =>
            /\ req'["r1"].status = 200
            /\ ~\E x \in class_subjects' : x.id = req'["r1"].input.id
       /\ Answers("r1", ClassSubjectsRoute) =>
            /\ req'["r1"].status = 200
            /\ {<<e.id, e.subject.id, e.teacher.id>> : e \in req'["r1"].body.subjects}
                 = {<<x.id, x.subject_id, x.teacher_id>> :
                        x \in {y \in class_subjects :
                                  y.class_id = req'["r1"].input.classId}}
       /\ (Answers("r1", AssignRoute) /\ AllIdsGiven(req'["r1"].input)
              /\ EndpointsExist(req'["r1"].input)
              /\ RowsOfTriple(class_subjects, req'["r1"].input) = {}) =>
            req'["r1"].status = 201]_vars

\* The triple was assigned, its row removed, and assigned again: the second
\* row is the only one.
C18_Witness ==
    /\ req["r1"].pc = "done" /\ req["r1"].route = AssignRoute
    /\ req["r1"].status = 201
    /\ req["r1"].body.assignment.id = 2
    /\ class_subjects = {req["r1"].body.assignment}

(***************************************************************************)
(* C14.  linkParentToStudents called with an empty student_ids list fails  *)
(* with 400 for every parent_id, resolving or not, without querying the    *)
(* parent and without inserting a student_parents row.                     *)
(***************************************************************************)
EmptyStudentIds(b) ==
    Has(b, "student_ids") /\ b.student_ids.array /\ b.student_ids.items = <<>>

C14_EmptyListIsInvalid ==
    [][\A r \in Slots :
        (Steps(r, "linkParentToStudents") /\ EmptyStudentIds(req'[r].input)) =>
            /\ req'[r].pc = "done" /\ req'[r].status = 400
            /\ req'[r].q = req[r].q
            /\ student_parents' = student_parents]_vars

\* The empty list was refused for the parent that exists and for one that
\* does not.
C14_Witness ==
    /\ \A r \in Slots :
        /\ req[r].pc = "done" /\ req[r].route = LinkRoute
        /\ req[r].status = 400 /\ EmptyStudentIds(req[r].input)
        /\ Has(req[r].input, "parent_id")
    /\ req["r1"].input.parent_id = "p1" /\ req["r2"].input.parent_id = "p9"

(***************************************************************************)
(* C15.  linkParentToStudents is atomic-or-fail over its batch: if a       *)
(* (parent_id, student_id) pair of the request is already linked the call  *)
(* fails with 409 and none of its pairs is inserted; otherwise a junction  *)
(* row is inserted for every student id of the request.  The newly         *)
(* inserted rows are the whole batch or none.                              *)
(***************************************************************************)
Linked(rows, rec) ==
    \E x \in rows : x.parent_id = rec.parent_id /\ x.student_id = rec.student_id

NewLinks == student_parents' \ student_parents

C15_AtomicOrFailAsClaimed ==
    [][\A r \in Slots :
        Steps(r, "linkParentToStudents:insert") =>
            LET recs == StudentParentRecords(req[r].local)
            IN /\ IF \E i \in DOMAIN recs : Linked(student_parents, recs[i])
                  THEN req'[r].status = 409 /\ NewLinks = {}
                  ELSE \A i \in DOMAIN recs : Linked(NewLinks, recs[i])
               /\ \/ NewLinks = {}
                  \/ \A i \in DOMAIN recs : Linked(NewLinks, recs[i])]_vars

\* C15, as the code has it: a request that names a student id twice is
\* refused with 409 as well, and one that names a student that does not
\* exist with 500, both without inserting; otherwise exactly one row per
\* student id is inserted and the answer is 201.  No row is removed.
C15_AtomicOrFail ==
    [][\A r \in Slots :
        Steps(r, "linkParentToStudents:insert") =>
            LET recs == StudentParentRecords(req[r].local)
                repeated == \E i, j \in DOMAIN recs : i # j /\ recs[i] = recs[j]
                resolve == \A i \in DOMAIN recs :
                    /\ \E p \in parents : p.id = recs[i].parent_id
                    /\ \E st \in students : st.id = recs[i].student_id
            IN /\ student_parents \subseteq student_parents'
               /\ IF repeated \/ \E i \in DOMAIN recs : Linked(student_parents, recs[i])
                  THEN req'[r].status = 409 /\ NewLinks = {}
                  ELSE IF ~resolve
                  THEN req'[r].status = 500 /\ NewLinks = {}
                  ELSE /\ req'[r].status = 201
                       /\ Cardinality(NewLinks) = Len(recs)
                       /\ \A i \in DOMAIN recs : Linked(NewLinks, recs[i])
                       /\ \A x \in NewLinks : \E i \in DOMAIN recs :
                            /\ x.parent_id = recs[i].parent_id
                            /\ x.student_id = recs[i].student_id]_vars

\* A batch of two students, one of them linked already, was refused and the
\* other student was not linked.
C15_Witness ==
    \E r \in Slots :
        /\ req[r].pc = "done" /\ req[r].route = LinkRoute /\ req[r].status = 409
        /\ req[r].input.student_ids.items = <<"st1", "st2">>
        /\ Linked(student_parents, [parent_id |-> "p1", student_id |-> "st1"])
        /\ ~Linked(student_parents, [parent_id |-> "p1", student_id |-> "st2"])

(***************************************************************************)
(* C16.  unlinkParentFromStudent(p, s) is an idempotent delete: it answers *)
(* success when no (p, s) link exists and then leaves student_parents      *)
(* unchanged, two calls in a row both succeed, and after a successful call *)
(* no (p, s) row exists; linking a pair that is linked fails with 409.     *)
(***************************************************************************)
PairGiven(b) == Has(b, "parent_id") /\ Has(b, "student_id")

C16_UnlinkIsIdempotent ==
    [][\A r \in Slots :
        /\ (Steps(r, "unlinkParentFromStudent") /\ PairGiven(req'[r].input)) =>
            /\ req'[r].pc = "done" /\ req'[r].status = 200
            /\ req'[r].body.success
            /\ ~Linked(student_parents', req'[r].input)
            /\ student_parents' =
                    {x \in student_parents :
                        x.parent_id # req'[r].input.parent_id
                            \/ x.student_id # req'[r].input.student_id}
            /\ ~Linked(student_parents, req'[r].input) =>
                    student_parents' = student_parents
        /\ (Steps(r, "linkParentToStudents:insert")
                /\ \E i \in DOMAIN StudentParentRecords(req[r].local) :
                    Linked(student_parents, StudentParentRecords(req[r].local)[i])) =>
            /\ req'[r].status = 409
            /\ student_parents' = student_parents]_vars

\* Two unlink calls for the same pair both succeeded and the pair is not
\* linked.
C16_Witness ==
    /\ \A r \in Slots :
        /\ req[r].pc = "done" /\ req[r].route = UnlinkRoute
        /\ req[r].status = 200
        /\ req[r].input = [parent_id |-> "p1", student_id |-> "st1"]
    /\ ~Linked(student_parents, [parent_id |-> "p1", student_id |-> "st1"])

(***************************************************************************)
(* C17.  assignSubjectToAcademicLevel fails with 404 and inserts nothing   *)
(* when academic_level_id or subject_id does not resolve to an existing    *)
(* row, and fails with 409 when the (subject, level) pair is already       *)
(* assigned.                                                               *)
(***************************************************************************)
LevelIdsGiven(b) == Has(b, "academic_level_id") /\ Has(b, "subject_id")

C17_LevelExistencePattern ==
    [][\A r \in Slots :
        (Steps(r, "assignSubjectToAcademicLevel") /\ LevelIdsGiven(req'[r].input)) =>
            LET b == req'[r].input
            IN /\ ((~\E l \in academic_levels : l.id = b.academic_level_id)
                     \/ ~\E x \in subjects : x.id = b.subject_id) =>
                    /\ req'[r].status = 404
                    /\ subject_academic_levels' = subject_academic_levels
               /\ (\E x \in subject_academic_levels :
                        /\ x.subject_id = b.subject_id
                        /\ x.academic_level_id = b.academic_level_id) =>
                    /\ req'[r].status = 409
                    /\ subject_academic_levels' = subject_academic_levels]_vars

(***************************************************************************)
(* C19.  When a head of department D calls createSubject with data that    *)
(* names another department D' (department_id = D' in the body), the call  *)
(* fails with 403 or 404 and no subject row is created: the write is not   *)
(* redirected into the caller's own department.                            *)
(***************************************************************************)
Heads(userId) == {d.id : d \in {x \in departments : x.hod_id = userId}}

C19_OtherDepartmentRefused ==
    [][\A r \in Slots :
        (/\ req[r].pc \in {"createSubject", "createSubject:insert"}
         /\ req'[r].pc = "done"
         /\ Has(req'[r].input, "department_id")
         /\ Heads(req[r].user.id) # {}
         /\ req'[r].input.department_id \notin Heads(req[r].user.id)) =>
            /\ req'[r].status \in {403, 404}
            /\ subjects' = subjects]_vars

(***************************************************************************)
(* C20.  For createSubject and updateSubject of the head-of-department     *)
(* routes, a caller with role hod for whom no department row has           *)
(* hod_id = caller is rejected with 403, and no subject row is inserted or *)
(* changed.                                                                *)
(***************************************************************************)
WithoutDepartment(r) ==
    req[r].user.role = "hod" /\ Heads(req[r].user.id) = {}

C20_NoDepartmentIsForbidden ==
    [][\A r \in Slots :
        ((Steps(r, "createSubject") \/ Steps(r, "updateSubject"))
            /\ WithoutDepartment(r)) =>
            /\ req'[r].pc = "done" /\ req'[r].status = 403
            /\ subjects' = subjects]_vars

\* C20, as the code has it: createSubject answers 404 "Department not
\* found", updateSubject 403 "Access denied"; neither touches subjects.
C20_NoDepartmentIsRejected ==
    [][\A r \in Slots :
        /\ (Steps(r, "createSubject") /\ WithoutDepartment(r)) =>
            /\ req'[r].pc = "done" /\ req'[r].status = 404
            /\ req'[r].body.error = "Department not found"
            /\ subjects' = subjects
        /\ (Steps(r, "updateSubject") /\ WithoutDepartment(r)) =>
            /\ req'[r].pc = "done" /\ req'[r].status = 403
            /\ req'[r].body.error = "Access denied"
            /\ subjects' = subjects]_vars

\* The head without a department was refused by createSubject and by
\* updateSubject.
C20_Witness ==
    /\ \A r \in Slots :
        /\ req[r].pc = "done" /\ req[r].user # Undefined
        /\ req[r].user.id = "u3" /\ req[r].user.role = "hod"
        /\ Heads("u3") = {}
    /\ req["r1"].route = CreateSubjectRoute /\ req["r1"].status = 404
    /\ req["r2"].route = UpdateSubjectRoute /\ req["r2"].status = 403

(***************************************************************************)
(* C21.  updateSubject of a head of department on a subject whose          *)
(* department_id differs from the caller's department never changes that   *)
(* subject: the call answers with an error and every subject row outside   *)
(* the caller's department is left unchanged, whatever fields the body     *)
(* carries.                                                                *)
(***************************************************************************)
OutsideDepartment(userId) ==
    {x \in subjects : x.department_id \notin Heads(userId)}

C21_OtherDepartmentUntouched ==
    [][\A r \in Slots :
        (req[r].pc \in {"updateSubject", "updateSubject:update"}
            /\ req'[r] # req[r]) =>
            /\ OutsideDepartment(req[r].user.id) \subseteq subjects'
            /\ \A x \in OutsideDepartment(req[r].user.id) :
                    (req'[r].pc = "done" /\ req'[r].input.id = x.id) =>
                        /\ req'[r].status \in {403, 500}
                        /\ req'[r].body.success = FALSE
                        /\ subjects' = subjects]_vars

\* The head of d1 asked to rename the subject of d2, in a body that also
\* names d2, and was refused; the subject of d2 is as it was.
C21_Witness ==
    \E r \in Slots :
        /\ req[r].pc = "done" /\ req[r].route = UpdateSubjectRoute
        /\ req[r].user # Undefined /\ req[r].user.id = "u2"
        /\ req[r].input.id = uuid(2)
        /\ Has(req[r].input.body, "department_id")
        /\ req[r].status = 500
        /\ \E x \in subjects : x.id = uuid(2) /\ x.name = "Physics"

(***************************************************************************)
(* C22.  Registration creates the role profile atomically with the         *)
(* identity: when register returns for role teacher, student or parent,    *)
(* either the users row and its role-profile row both exist (success) or   *)
(* neither exists (failure), also when the profile insert fails and when   *)
(* the compensating delete of the users row fails.                         *)
(***************************************************************************)
\* The role profiles of an identity among the rows of the three tables.
ProfilesIn(ts, ss, ps, id, role) ==
    {p \in (CASE role = "teacher" -> ts
              [] role = "student" -> ss
              [] role = "parent" -> ps
              [] OTHER -> {}) : p.user_id = id}

ProfilesOf(id, role) == ProfilesIn(teachers, students, parents, id, role)

C22_RegistrationIsAtomic ==
    [][\A r \in Slots :
        (req[r].pc \in {"register:profile", "register:rollback"}
            /\ req'[r].pc = "done") =>
            IF req'[r].status = 201
            THEN /\ \E u \in users' : u.id = req[r].local.newUser.id
                 /\ ProfilesIn(teachers', students', parents',
                               req[r].local.newUser.id,
                               req[r].local.body.role) # {}
            ELSE /\ ~\E u \in users' : u.id = req[r].local.newUser.id
                 /\ ProfilesIn(teachers', students', parents',
                               req[r].local.newUser.id,
                               req[r].local.body.role) = {}]_vars

(***************************************************************************)
(* C23.  In every state reachable by register, createUser and updateUser,  *)
(* a role-profile row for role R (in teachers, students or parents) exists *)
(* only for an identity whose current role is R.                           *)
(***************************************************************************)
C23_ProfileMatchesRole ==
    \A role \in ProfileRoles :
        \A p \in (CASE role = "teacher" -> teachers
                    [] role = "student" -> students
                    [] role = "parent" -> parents) :
            \E u \in users : u.id = p.user_id /\ u.role = role

(***************************************************************************)
(* C24.  After any sequence of register, createUser and updateUser, every  *)
(* identity whose role is teacher, student or parent has exactly one       *)
(* role-profile row of that role, whichever creation path produced it.     *)
(***************************************************************************)
Quiescent == \A r \in Slots : req[r].pc \in {"idle", "done"}

C24_OneProfilePerIdentity ==
    Quiescent =>
        \A u \in users :
            u.role \in ProfileRoles =>
                Cardinality(ProfilesOf(u.id, u.role)) = 1

(***************************************************************************)
(* C25.  Under any interleaving of register, createUser and updateUser no  *)
(* two identities have e-mails that are equal when compared without case,  *)
(* and a creation whose e-mail differs only in case from an existing one   *)
(* fails with 409 and inserts nothing.                                     *)
(***************************************************************************)
SameEmail(a, b) == toLowerCase(a) = toLowerCase(b)

\* The body of a creation that passed its validation and takes a step.
CreationBody(r) ==
    IF req[r].pc \in {"register", "createUser"} THEN req'[r].input
    ELSE req[r].local.body

C25_EmailsUniqueIgnoringCase ==
    [][/\ \A u, v \in users' : SameEmail(u.email, v.email) => u.id = v.id
       /\ \A r \in Slots :
            (/\ req[r].pc \in {"register", "register:insert",
                                "createUser", "createUser:insert"}
             /\ req'[r] # req[r]
             /\ RequiredFields \subseteq DOMAIN CreationBody(r)
             /\ CreationBody(r).role \in validRoles
             /\ \E u \in users : SameEmail(u.email, CreationBody(r).email)) =>
                /\ req'[r].pc = "done" /\ req'[r].status = 409
                /\ users' = users]_vars

(***************************************************************************)
(* C26.  No request of an administrator leaves that administrator's own    *)
(* account deleted or inactive: deleteUser and deactivateUser on the       *)
(* caller's own id answer 400 and change nothing, and after any sequence   *)
(* of deleteUser, deactivateUser and updateUser issued by administrator A  *)
(* the users row of A still exists with is_active = true.                  *)
(***************************************************************************)
C26_AdminKeepsOwnAccount ==
    [][/\ \A r \in Slots :
            (req[r].pc \in {"deleteUser", "deactivateUser"}
                /\ req'[r].pc = "done") =>
                /\ \E u \in users' : u.id = req[r].user.id /\ u \in users
                /\ req'[r].status = 400 => users' = users
       /\ \E u \in users' : u.id = AdminRow.id /\ u.is_active]_vars

(***************************************************************************)
(* C27.  A parent P obtains a student's grades, submissions or attendance  *)
(* through getChildPerformance, getChildAssignments or getChildAttendance  *)
(* only if a student_parents row links P's parent profile to the student   *)
(* when the request checks it: without the link the request is answered    *)
(* 403 with no student data, and after unlinkParentFromStudent(P, s) the   *)
(* next such request for s is denied.                                      *)
(***************************************************************************)
ChildLink(r) ==
    [parent_id |-> req[r].local.parent.id,
     student_id |-> req[r].local.studentId]

C27_LinkRequired ==
    [][\A r \in Slots :
        /\ Steps(r, "childData:relationship") =>
            IF Linked(student_parents, ChildLink(r))
            THEN req'[r].pc = "childData:fetch"
            ELSE /\ req'[r].pc = "done" /\ req'[r].status = 403
                 /\ req'[r].body = [success |-> FALSE, error |-> "Access denied"]
        /\ (req'[r].pc = "childData:fetch" /\ req[r].pc # "childData:fetch") =>
            /\ req[r].pc = "childData:relationship"
            /\ \E p \in parents : p.user_id = req[r].user.id
                                    /\ p.id = req[r].local.parent.id
        /\ (req[r].route \in ChildRoutes /\ req[r].pc # "done"
                /\ req'[r].pc = "done" /\ req'[r].status = 200) =>
            /\ req[r].pc = "childData:fetch"
            /\ req'[r].body =
                    ChildData(req[r].local.handler, req'[r].input.studentId)]_vars

\* The parent was linked to the first student from the start; the
\* administrator unlinked them, and the parent's request for that student,
\* whose check found no link, was denied.
C27_Witness ==
    /\ req["r1"].pc = "done" /\ req["r1"].route = UnlinkRoute
    /\ req["r1"].status = 200
    /\ req["r1"].input = [parent_id |-> "p1", student_id |-> "st1"]
    /\ req["r2"].pc = "done" /\ req["r2"].route \in ChildRoutes
    /\ req["r2"].user # Undefined /\ req["r2"].user.id = "u2"
    /\ req["r2"].input = [studentId |-> "st1"]
    /\ req["r2"].status = 403
    /\ ~Linked(student_parents, [parent_id |-> "p1", student_id |-> "st1"])

(***************************************************************************)
(* C28.  Across any sequence of submitAssignment and gradeSubmission calls *)
(* there is at most one assignment_submissions row per (assignment,        *)
(* student), and in every reachable state a row has marks_obtained set     *)
(* only if its status is 'graded', also after a student resubmits a        *)
(* submission that was graded.                                             *)
(***************************************************************************)
C28_MarksOnlyWhenGraded ==
    /\ \A x, y \in assignment_submissions :
            (x.assignment_id = y.assignment_id /\ x.student_id = y.student_id)
                => x = y
    /\ \A x \in assignment_submissions :
            x.marks_obtained # Null => x.status = "graded"

(***************************************************************************)
(* C29.  A teacher changes only what that teacher owns: gradeSubmission by *)
(* teacher T modifies a submission only if its assignment was created by   *)
(* T, as updateAssignment and deleteAssignment by T affect only            *)
(* assignments with teacher_id = T; the rows of other teachers'            *)
(* assignments are left unchanged by every teacher operation of T.         *)
(***************************************************************************)
OwnedByOther(x, teacherId) ==
    \E a \in assignments : a.id = x.assignment_id /\ a.teacher_id # teacherId

C29_TeacherChangesOnlyOwn ==
    [][\A r \in Slots :
        (req[r].pc \in {"gradeSubmission", "updateAssignment", "deleteAssignment"}
            /\ req'[r] # req[r]) =>
            /\ \A a \in assignments :
                    a.teacher_id # req[r].user.id => a \in assignments'
            /\ \A x \in assignment_submissions :
                    OwnedByOther(x, req[r].user.id) =>
                        x \in assignment_submissions']_vars

(***************************************************************************)
(* C30.  approveMaterial of a head of department sets is_approved and      *)
(* approved_by only on a learning material whose subject belongs to the    *)
(* department the caller heads, the set getDepartmentMaterials lists; the  *)
(* materials of every other department are left unchanged, and a head      *)
(* without a department can approve nothing.                               *)
(***************************************************************************)
ListedFor(userId) ==
    UNION {DepartmentMaterials(d) : d \in Heads(userId)}

C30_ApprovesOwnDepartmentOnly ==
    [][\A r \in Slots :
        /\ Steps(r, "approveMaterial") =>
                \A m \in learning_materials :
                    m \notin ListedFor(req[r].user.id) =>
                        m \in learning_materials'
        /\ (Steps(r, "getDepartmentMaterials:fetch")) =>
                req'[r].body.materials = ListedFor(req[r].user.id)]_vars

====
